---- MODULE Spec2Model ----
(***************************************************************************)
(* minipb: an incremental protobuf wire-format decoder.                    *)
(*   pb.rs            read_varint / read_varint32 / read_varint64 / fixed  *)
(*   field_reader.rs  FieldReader::next                                    *)
(*   matcher_fields.rs MatcherFields (advance / next) and the Matcher      *)
(*   gather_fields.rs GatheredFields::next, Slicer                         *)
(*   examples/ipfs.rs Document (Matcher) and PBLinkGatherer (Gatherer)     *)
(*                                                                         *)
(* Machine integers (u32, u64) are modelled as the set of their set bit    *)
(* positions, so that 64-bit values are exact: x | y is the union, x & y   *)
(* the intersection, x << n and x >> n move the positions and drop those   *)
(* that leave the width.  Bytes and offsets are naturals.                  *)
(***************************************************************************)
EXTENDS Integers, Sequences, FiniteSets, TLC

VARIABLES
    data,       \* the whole input of the session (what the byte source holds)
    src,        \* how data was built (the encoded field / the stream's items)
    fed,        \* number of bytes of data handed to the callee so far
    buf,        \* the caller's buffer: the unreleased remainder plus new bytes
    released,   \* number of bytes the caller has released in front of buf
    fr,         \* FieldReader { field }
    mf,         \* MatcherFields { offset, reader, matcher, state }
    gatherer,   \* PBLinkGatherer { hash, name, total_size }
    cached_min_offset, \* GatheredFields.cached_min_offset
    ret,        \* what the last call returned
    out,        \* every item the driver has returned so far, in order
    log,        \* every Matcher / Gatherer / Slicer call so far, in order
    retries,    \* calls made since the last Status return without new bytes
    rw          \* ReadWrapper { buffer, at_offset, exhausted, eof_after_buffer }

vars == <<data, src, fed, buf, released, fr, mf, gatherer, cached_min_offset,
          ret, out, log, retries, rw>>

----------------------------------------------------------------------------
(* Bit-set integers *)

U64Width == 64
U32Width == 32

Bits(b) == {i \in 0..7 : (b \div (2^i)) % 2 = 1}

Shl(S, n, width) == {i + n : i \in S} \cap (0..(width - 1))

Shr(S, n) == {i - n : i \in {j \in S : j >= n}}

RECURSIVE ToNat(_)
ToNat(S) == IF S = {} THEN 0
            ELSE LET i == CHOOSE x \in S : TRUE IN (2^i) + ToNat(S \ {i})

Min(a, b) == IF a <= b THEN a ELSE b

Drop(s, n) == SubSeq(s, n + 1, Len(s))

Take(s, n) == SubSeq(s, 1, n)

----------------------------------------------------------------------------
(* pb.rs *)

NeedMore == [r |-> "NeedMoreBytes", n |-> 0, val |-> {}, e |-> "-"]
VarintOk(count, val) == [r |-> "Ok", n |-> count, val |-> val, e |-> "-"]
VarintErr(e) == [r |-> "Err", n |-> 0, val |-> {}, e |-> e]

mask == 0..6

RECURSIVE read_varint_loop(_, _, _, _)
read_varint_loop(d, max_bytes, count, val) ==
    IF count < Min(Len(d), max_bytes)
    THEN LET b == d[count + 1]
             v == val \cup Shl(Bits(b) \cap mask, count * 7, U64Width)
         IN IF Bits(b) \cap {7} = {}
            THEN VarintOk(count + 1, v)
            ELSE read_varint_loop(d, max_bytes, count + 1, v)
    ELSE IF count < max_bytes THEN NeedMore
         ELSE IF max_bytes = 4 THEN VarintErr("TooManyVarint32Bytes")
         ELSE VarintErr("TooManyVarint64Bytes")

\* read_varint with running out of input treated as malformed input
read_varint_short_is_error(d, max_bytes) ==
    LET x == read_varint_loop(d, max_bytes, 0, {})
    IN IF x.r = "NeedMoreBytes" THEN VarintErr("TooManyVarint64Bytes") ELSE x

\* read_varint without the cap: an unterminated varint asks for more bytes forever
read_varint_uncapped(d, max_bytes) ==
    LET x == read_varint_loop(d, max_bytes, 0, {})
    IN IF x.r = "Err" THEN NeedMore ELSE x

\* read_varint that counts every byte it was given as consumed
read_varint_counts_all(d, max_bytes) ==
    LET x == read_varint_loop(d, max_bytes, 0, {})
    IN IF x.r = "Ok" THEN VarintOk(Min(Len(d), max_bytes), x.val) ELSE x

\* read_varint that takes the first byte for the most significant 7 bits
read_varint_msb_first(d, max_bytes) ==
    LET x == read_varint_loop(d, max_bytes, 0, {})
    IN IF x.r = "Ok"
       THEN VarintOk(x.n, UNION {Shl(Bits(d[i]) \cap mask, (x.n - i) * 7, U64Width) :
                                    i \in 1..x.n})
       ELSE x

read_varint(d, max_bytes) == read_varint_loop(d, max_bytes, 0, {})

\* a read_varint32 that hands the u64 on without the cast to u32
read_varint32_uncast(d) == read_varint(d, 5)

read_varint32(d) ==
    LET x == read_varint(d, 5)
    IN IF x.r = "Ok" THEN VarintOk(x.n, x.val \cap (0..(U32Width - 1))) ELSE x

read_varint64(d) == read_varint(d, 10)

RECURSIVE from_le_bytes(_, _)
from_le_bytes(bytes, width) ==
    IF bytes = <<>> THEN {}
    ELSE Shl(Bits(bytes[Len(bytes)]), 8 * (Len(bytes) - 1), width)
         \cup from_le_bytes(Take(bytes, Len(bytes) - 1), width)

read_fixed32(d) ==
    IF Len(d) < 4 THEN NeedMore
    ELSE VarintOk(4, from_le_bytes(Take(d, 4), U32Width))

read_fixed64(d) ==
    IF Len(d) < 8 THEN NeedMore
    ELSE VarintOk(8, from_le_bytes(Take(d, 8), U64Width))

----------------------------------------------------------------------------
(* lib.rs: DecodingError, Status, WireType, FieldInfo, ReadField *)

DecodingError(name, tag, a, b) == [e |-> name, tag |-> tag, a |-> a, b |-> b]

NoError == DecodingError("-", {}, 0, 0)

NoFieldInfo == [id |-> 0, kind |-> "-", value |-> [v |-> "-", x |-> {}]]

FieldInfo(id, kind, v, x) == [id |-> id, kind |-> kind, value |-> [v |-> v, x |-> x]]

\* a conversion that takes every wire type it does not support for an unknown one
WireType_try_from_groups_unknown(tag) ==
    LET w == ToNat(tag \cap (0..2))
    IN CASE w = 0 -> [r |-> "Ok", kind |-> "Varint", err |-> NoError]
         [] w = 1 -> [r |-> "Ok", kind |-> "Fixed64", err |-> NoError]
         [] w = 2 -> [r |-> "Ok", kind |-> "LengthDelimited", err |-> NoError]
         [] w = 5 -> [r |-> "Ok", kind |-> "Fixed32", err |-> NoError]
         [] OTHER ->
               [r |-> "Err", kind |-> "-",
                err |-> DecodingError("UnknownWireType", tag, 0, 0)]

WireType_try_from(tag) ==
    LET w == ToNat(tag \cap (0..2))
    IN CASE w = 0 -> [r |-> "Ok", kind |-> "Varint", err |-> NoError]
         [] w = 1 -> [r |-> "Ok", kind |-> "Fixed64", err |-> NoError]
         [] w = 2 -> [r |-> "Ok", kind |-> "LengthDelimited", err |-> NoError]
         [] w \in {3, 4} ->
               [r |-> "Err", kind |-> "-",
                err |-> DecodingError("UnsupportedGroupWireType", tag, 0, 0)]
         [] w = 5 -> [r |-> "Ok", kind |-> "Fixed32", err |-> NoError]
         [] OTHER ->
               [r |-> "Err", kind |-> "-",
                err |-> DecodingError("UnknownWireType", tag, 0, 0)]

\* bytes_to_skip that takes any value for a length
FieldInfo_bytes_to_skip_any_value(field) ==
    IF field.value.x \subseteq (0..30) THEN ToNat(field.value.x) ELSE 1

FieldInfo_bytes_to_skip(field) ==
    IF field.value.v = "DataLength" THEN ToNat(field.value.x) ELSE 0

\* a consumed() that counts the payload of a length-delimited field as well
ReadField_consumed_with_payload(read) ==
    read.consumed + (IF read.field.value.v = "DataLength"
                     THEN ToNat(read.field.value.x) ELSE 0)

ReadField_consumed(read) == read.consumed

ReadField_field_id(read) == read.field.id

ReadField_bytes_to_skip(read) == read.consumed + FieldInfo_bytes_to_skip(read.field)

ReadField_field_len(read) == FieldInfo_bytes_to_skip(read.field)

ReadField_wire_type(read) == read.field.kind

----------------------------------------------------------------------------
(* field_reader.rs: FieldReader::next.  The result is                      *)
(*   Ok(Ok(ReadField))  r = "Field"  (consumed, field)                     *)
(*   Ok(Err(Status))    r = "Status" (status)                              *)
(*   Err(DecodingError) r = "Err"    (err)                                 *)
(* and self is the reader afterwards (self.field is set on success only).  *)

FieldReader_default == [field |-> NoFieldInfo]

\* a reader that reports every suspension as idle
FrStatus_always_idle(s) == [r |-> "Status", status |-> "IdleAtEndOfBuffer",
                            err |-> NoError, consumed |-> 0, field |-> NoFieldInfo]

FrStatus(s) == [r |-> "Status", status |-> s, err |-> NoError,
                consumed |-> 0, field |-> NoFieldInfo]

FrErr(err) == [r |-> "Err", status |-> "-", err |-> err,
               consumed |-> 0, field |-> NoFieldInfo]

FrField(consumed, field) == [r |-> "Field", status |-> "-", err |-> NoError,
                             consumed |-> consumed, field |-> field]

\* launder!: NeedMoreBytes leaves the call as Status::NeedMoreBytes; the ? before
\* it leaves the call with the decoding error.
FieldReader_value(kind, d) ==
    CASE kind = "Varint" ->
            LET x == read_varint64(d) IN [x |-> x, v |-> "Varint"]
      [] kind = "Fixed32" ->
            LET x == read_fixed32(d) IN [x |-> x, v |-> "Fixed32"]
      [] kind = "Fixed64" ->
            LET x == read_fixed64(d) IN [x |-> x, v |-> "Fixed64"]
      [] kind = "LengthDelimited" ->
            LET x == read_varint32(d) IN [x |-> x, v |-> "DataLength"]

FieldReader_next(self, d) ==
    IF d = <<>> THEN [self |-> self, res |-> FrStatus("IdleAtEndOfBuffer")]
    ELSE
    LET t == read_varint32(d) IN
    IF t.r = "Err" THEN [self |-> self, res |-> FrErr(DecodingError(t.e, {}, 0, 0))]
    ELSE IF t.r = "NeedMoreBytes"
    THEN [self |-> self, res |-> FrStatus("NeedMoreBytes")]
    ELSE
    LET consumed == t.n
        tag == t.val
        rest == Drop(d, consumed)
        field == ToNat(Shr(tag, 3))
        kind == WireType_try_from(tag)
    IN
    IF kind.r = "Err" THEN [self |-> self, res |-> FrErr(kind.err)]
    ELSE
    LET av == FieldReader_value(kind.kind, rest) IN
    IF av.x.r = "Err"
    THEN [self |-> self, res |-> FrErr(DecodingError(av.x.e, {}, 0, 0))]
    ELSE IF av.x.r = "NeedMoreBytes"
    THEN [self |-> self, res |-> FrStatus("NeedMoreBytes")]
    ELSE
    LET info == FieldInfo(field, kind.kind, av.v, av.x.val)
    IN [self |-> [field |-> info], res |-> FrField(consumed + av.x.n, info)]

----------------------------------------------------------------------------
(* examples/ipfs.rs: DagPbElement tags and the Document matcher *)

Tag(t, id) == [t |-> t, id |-> id]

NoTag == Tag("-", 0)

Top == [m |-> "Top", until |-> 0]

Link(until) == [m |-> "Link", until |-> until]

Decision(self, r, tag) == [self |-> self, r |-> r, tag |-> tag]

\* Ok(Cont::Message(Some(tag))) is r = "Message", Ok(Cont::ReadSlice(tag)) is
\* "ReadSlice", Ok(Cont::ReadValue(tag)) is "ReadValue", Err(Skip(tag)) is "Skip";
\* "Panic" is the failed assert!(offset < *until).
Document_decide_before(self, offset, read) ==
    IF self.m = "Top"
    THEN IF ReadField_field_id(read) = 2
         THEN Decision(Link(offset + ReadField_bytes_to_skip(read)), "Message",
                       Tag("StartPbLink", 0))
         ELSE Decision(self, "Skip", Tag("TopExtraField", ReadField_field_id(read)))
    ELSE IF ~(offset < self.until)
         THEN Decision(self, "Panic", NoTag)
         ELSE CASE ReadField_field_id(read) = 1 ->
                      Decision(self, "ReadSlice", Tag("PbLinkHash", 0))
                [] ReadField_field_id(read) = 2 ->
                      Decision(self, "ReadSlice", Tag("PbLinkName", 0))
                [] ReadField_field_id(read) = 3 ->
                      Decision(self, "ReadValue", Tag("PbLinkTotalSize", 0))
                [] OTHER ->
                      Decision(self, "Skip",
                               Tag("PbLinkExtraField", ReadField_field_id(read)))

\* the result of decide_after: (again, maybe_tag), the matcher as the call left it,
\* and panic for a failed assert!
After(self, again, tag, panic) ==
    [self |-> self, again |-> again, tag |-> tag, panic |-> panic]

Document_decide_after(self, offset) ==
    IF self.m = "Link" /\ offset = self.until
    THEN After(Top, FALSE, Tag("EndPbLink", 0), FALSE)
    ELSE After(self, FALSE, NoTag, FALSE)

----------------------------------------------------------------------------
(* examples/extractor.rs: PathMatcher.  path is the sequence of field ids,     *)
(* position the stack of ending offsets of the entered sub-messages (the last  *)
(* element is the top).                                                        *)

PathMatcher_new(path, leaf_type) ==
    [m |-> "Path", until |-> 0, path |-> path, leaf_type |-> leaf_type,
     position |-> <<>>]

PathMatcher_decide_before(self, offset, read) ==
    LET depth == Len(self.position)
        leaves == Len(self.path) - 1
        is_length_delimited == ReadField_wire_type(read) = "LengthDelimited"
    IN
    IF depth = leaves
    THEN IF ReadField_field_id(read) = self.path[depth + 1]
         THEN CASE self.leaf_type \in {"Debug", "Slice", "Str"} /\ is_length_delimited ->
                      Decision(self, "ReadSlice", Tag("Leaf", 0))
                [] ~is_length_delimited ->
                      Decision(self, "ReadValue", Tag("Leaf", 0))
                [] OTHER ->
                      Decision(self, "Skip",
                               Tag("UnexpectedLeafType", ReadField_wire_type(read)))
         ELSE Decision(self, "Skip", Tag("Ignored", 0))
    ELSE IF ReadField_field_id(read) = self.path[depth + 1]
              /\ ReadField_field_len(read) > 0
         THEN Decision([self EXCEPT !.position =
                            Append(@, offset + ReadField_bytes_to_skip(read))],
                       "Message", Tag("Start", 0))
         ELSE Decision(self, "Skip", Tag("Ignored", 0))

PathMatcher_decide_after(self, offset) ==
    LET n == Len(self.position) IN
    IF n > 0 /\ self.position[n] = offset
    THEN After([self EXCEPT !.position = SubSeq(@, 1, n - 1)],
               n > 1 /\ self.position[n - 1] = offset, Tag("End", 0), FALSE)
    ELSE IF n > 0
    THEN After(self, FALSE, NoTag, ~(self.position[n] > offset))
    ELSE After(self, FALSE, NoTag, FALSE)

----------------------------------------------------------------------------
(* matcher_fields.rs: Matcher, State, Matched, Value, MatcherFields *)

\* M: Matcher is Document or PathMatcher
Matcher_decide_before(self, offset, read) ==
    IF self.m = "Path"
    THEN PathMatcher_decide_before(self, offset, read)
    ELSE Document_decide_before(self, offset, read)

Matcher_decide_after(self, offset) ==
    IF self.m = "Path"
    THEN PathMatcher_decide_after(self, offset)
    ELSE Document_decide_after(self, offset)

State(k, tag, read_at, start, amount) ==
    [k |-> k, tag |-> tag, read_at |-> read_at, start |-> start, amount |-> amount]

Ready == State("Ready", NoTag, 0, 0, 0)

DecidingAfter == State("DecidingAfter", NoTag, 0, 0, 0)

Value(v, x, s, e) == [v |-> v, x |-> x, s |-> s, e |-> e]

Marker == Value("Marker", {}, 0, 0)

Slice(s, e) == Value("Slice", {}, s, e)

Matched(tag, offset, value) == [tag |-> tag, offset |-> offset, value |-> value]

NoMatched == Matched(NoTag, 0, Value("-", {}, 0, 0))

\* What a call returns: Ok(Ok(Some(m))) is r = "Matched", Ok(Ok(None)) is "None",
\* Ok(Err(status)) is "Status", Err(e) is "Err"; "Panic" is a panic inside the call.
Res(r, m, status, err) == [r |-> r, m |-> m, status |-> status, err |-> err]

ResMatched(m) == Res("Matched", m, "-", NoError)

ResNone == Res("None", NoMatched, "-", NoError)

ResStatus(s) == Res("Status", NoMatched, s, NoError)

ResErr(err) == Res("Err", NoMatched, "-", err)

ResPanic == Res("Panic", NoMatched, "-", NoError)

\* One entry of log: a Matcher call made by the driver.
\*   decide_before: off = offset passed (the header's start), hdr = read.consumed,
\*                  len = read.field_len(), dec = the decision, m = the matcher before
\*   decide_after:  off = offset passed, dec = "again" or "done", tag = the tag
\*                  returned (NoTag for None), m = the matcher before
\*   as_slice:      off..len = the range asked for, hdr = the Slicer's first_offset,
\*                  dec = "Ok" or "Panic", bytes = the bytes returned
EvB(e, off, hdr, len, dec, tag, m, bytes) ==
    [e |-> e, off |-> off, hdr |-> hdr, len |-> len, dec |-> dec, tag |-> tag, m |-> m,
     bytes |-> bytes]

Ev(e, off, hdr, len, dec, tag, m) == EvB(e, off, hdr, len, dec, tag, m, <<>>)

MatcherFields_new(matcher) ==
    [offset |-> 0, reader |-> FieldReader_default, matcher |-> matcher, state |-> Ready]

Step(self, b, res, ev) == [self |-> self, buf |-> b, res |-> res, ev |-> ev]

\* a driver that goes back to Ready after one decide_after call
advance_DecidingAfter_once(self, b) ==
    LET d == Matcher_decide_after(self.matcher, self.offset)
        ev == <<Ev("decide_after", self.offset, 0, 0,
                   IF d.panic THEN "Panic" ELSE IF d.again THEN "again" ELSE "done",
                   d.tag, self.matcher)>>
        self1 == [self EXCEPT !.matcher = d.self, !.state = Ready]
    IN IF d.panic THEN Step(self, b, ResPanic, ev)
       ELSE IF d.tag # NoTag
       THEN Step(self1, b, ResMatched(Matched(d.tag, self.offset, Marker)), ev)
       ELSE Step(self1, b, ResNone, ev)

advance_DecidingAfter(self, b) ==
    LET d == Matcher_decide_after(self.matcher, self.offset)
        st == IF ~d.again THEN Ready ELSE self.state
        ev == <<Ev("decide_after", self.offset, 0, 0,
                   IF d.panic THEN "Panic" ELSE IF d.again THEN "again" ELSE "done",
                   d.tag, self.matcher)>>
        self1 == [self EXCEPT !.matcher = d.self, !.state = st]
    IN IF d.panic THEN Step(self, b, ResPanic, ev)
       ELSE IF d.tag # NoTag
       THEN Step(self1, b, ResMatched(Matched(d.tag, self.offset, Marker)), ev)
       ELSE Step(self1, b, ResNone, ev)

\* a driver that reports a gathered slice at the offset it ends at
advance_Gathering_reports_end(self, b) ==
    LET amount == self.state.amount IN
    IF Len(b) < amount
    THEN Step(self, b, ResStatus("NeedMoreBytes"), <<>>)
    ELSE LET offset == self.offset + amount
             m == Matched(self.state.tag, offset, Slice(self.state.start, offset))
         IN Step([self EXCEPT !.offset = offset, !.state = DecidingAfter],
                 Drop(b, amount), ResMatched(m), <<>>)

\* a driver whose offset restarts at the end of every gathered slice
advance_Gathering_offset_restarts(self, b) ==
    LET amount == self.state.amount IN
    IF Len(b) < amount
    THEN Step(self, b, ResStatus("NeedMoreBytes"), <<>>)
    ELSE LET m == Matched(self.state.tag, self.state.read_at,
                          Slice(self.state.start, self.offset + amount))
         IN Step([self EXCEPT !.offset = amount, !.state = DecidingAfter],
                 Drop(b, amount), ResMatched(m), <<>>)

\* a driver that goes back to reading fields after a slice, asking nothing
advance_Gathering_then_Ready(self, b) ==
    LET amount == self.state.amount IN
    IF Len(b) < amount
    THEN Step(self, b, ResStatus("NeedMoreBytes"), <<>>)
    ELSE LET offset == self.offset + amount
             m == Matched(self.state.tag, self.state.read_at,
                          Slice(self.state.start, offset))
         IN Step([self EXCEPT !.offset = offset, !.state = Ready],
                 Drop(b, amount), ResMatched(m), <<>>)

\* a driver that takes the part of the payload that is there
advance_Gathering_takes_part(self, b) ==
    LET amount == self.state.amount IN
    IF Len(b) < amount
    THEN Step([self EXCEPT !.offset = @ + Len(b), !.state.amount = amount - Len(b)],
              <<>>, ResStatus("NeedMoreBytes"), <<>>)
    ELSE LET offset == self.offset + amount
             m == Matched(self.state.tag, self.state.read_at,
                          Slice(self.state.start, offset))
         IN Step([self EXCEPT !.offset = offset, !.state = DecidingAfter],
                 Drop(b, amount), ResMatched(m), <<>>)

advance_Gathering(self, b) ==
    LET amount == self.state.amount IN
    IF Len(b) < amount
    THEN Step(self, b, ResStatus("NeedMoreBytes"), <<>>)
    ELSE LET offset == self.offset + amount
             m == Matched(self.state.tag, self.state.read_at,
                          Slice(self.state.start, offset))
         IN Step([self EXCEPT !.offset = offset, !.state = DecidingAfter],
                 Drop(b, amount), ResMatched(m), <<>>)

\* a driver that waits for the whole payload before it skips any of it
advance_Skipping_buffers_payload(self, b) ==
    LET amt == self.state.amount
        offset == self.offset + amt
    IN IF Len(b) < amt
       THEN Step(self, b, ResStatus("NeedMoreBytes"), <<>>)
       ELSE Step([self EXCEPT !.offset = offset, !.state = DecidingAfter],
                 Drop(b, amt),
                 ResMatched(Matched(self.state.tag, self.state.read_at,
                                    Slice(self.state.start, offset))),
                 <<>>)

\* a driver that forgets a partially skipped payload in its offset
advance_Skipping_offset_stays(self, b) ==
    LET amt == self.state.amount
        skipped == Min(amt, Len(b))
        offset == self.offset + skipped
        remaining == amt - skipped
    IN IF remaining = 0
       THEN Step([self EXCEPT !.offset = offset, !.state = DecidingAfter],
                 Drop(b, skipped),
                 ResMatched(Matched(self.state.tag, self.state.read_at,
                                    Slice(self.state.start, offset))),
                 <<>>)
       ELSE Step([self EXCEPT !.state.amount = remaining],
                 Drop(b, skipped), ResStatus("NeedMoreBytes"), <<>>)

\* a driver that reports a partially skipped payload as a place to stop
advance_Skipping_idle_midway(self, b) ==
    LET amt == self.state.amount
        skipped == Min(amt, Len(b))
        offset == self.offset + skipped
        remaining == amt - skipped
    IN IF remaining = 0
       THEN Step([self EXCEPT !.offset = offset, !.state = DecidingAfter],
                 Drop(b, skipped),
                 ResMatched(Matched(self.state.tag, self.state.read_at,
                                    Slice(self.state.start, offset))),
                 <<>>)
       ELSE Step([self EXCEPT !.offset = offset, !.state.amount = remaining],
                 Drop(b, skipped), ResStatus("IdleAtEndOfBuffer"), <<>>)

\* a driver that starts the count anew with every chunk of a skipped payload
advance_Skipping_forgets_progress(self, b) ==
    LET amt == self.state.amount
        skipped == Min(amt, Len(b))
        offset == self.offset + skipped
        remaining == amt - skipped
    IN IF remaining = 0
       THEN Step([self EXCEPT !.offset = offset, !.state = DecidingAfter],
                 Drop(b, skipped),
                 ResMatched(Matched(self.state.tag, self.state.read_at,
                                    Slice(self.state.start, offset))),
                 <<>>)
       ELSE Step([self EXCEPT !.offset = offset],
                 Drop(b, skipped), ResStatus("NeedMoreBytes"), <<>>)

\* a driver that skips one byte per advance step
advance_Skipping_byte_by_byte(self, b) ==
    IF self.state.amount = 0
    THEN Step([self EXCEPT !.state = DecidingAfter], b,
              ResMatched(Matched(self.state.tag, self.state.read_at,
                                 Slice(self.state.start, self.offset))),
              <<>>)
    ELSE IF b = <<>>
    THEN Step(self, b, ResStatus("NeedMoreBytes"), <<>>)
    ELSE Step([self EXCEPT !.offset = @ + 1, !.state.amount = @ - 1],
              Drop(b, 1), ResNone, <<>>)

advance_Skipping(self, b) ==
    LET amt == self.state.amount
        skipped == Min(amt, Len(b))
        offset == self.offset + skipped
        remaining == amt - skipped
    IN IF remaining = 0
       THEN Step([self EXCEPT !.offset = offset, !.state = DecidingAfter],
                 Drop(b, skipped),
                 ResMatched(Matched(self.state.tag, self.state.read_at,
                                    Slice(self.state.start, offset))),
                 <<>>)
       ELSE Step([self EXCEPT !.offset = offset, !.state.amount = remaining],
                 Drop(b, skipped), ResStatus("NeedMoreBytes"), <<>>)

\* a driver that passes over a sub-message as over a skipped field
advance_Ready_decided_skips_message(self, b, n, decision) ==
    LET read == [consumed |-> n.res.consumed, field |-> n.res.field]
        consumed == ReadField_consumed(read)
        b1 == Drop(b, consumed)
        read_at == self.offset
        offset == self.offset + consumed
        ev == <<Ev("decide_before", read_at, consumed, ReadField_field_len(read),
                   decision.r, decision.tag, self.matcher)>>
        self1 == [self EXCEPT !.offset = offset, !.reader = n.self,
                              !.matcher = decision.self]
    IN
    CASE decision.r = "Panic" -> Step(self1, b1, ResPanic, ev)
      [] decision.r = "Message" ->
            Step([self1 EXCEPT !.state =
                      State("Skipping", decision.tag, read_at, offset,
                            ReadField_field_len(read))],
                 b1, ResNone, ev)
      [] decision.r = "ReadValue" ->
            IF read.field.value.v \in {"Varint", "Fixed64", "Fixed32"}
            THEN Step([self1 EXCEPT !.state = DecidingAfter], b1,
                      ResMatched(Matched(decision.tag, read_at,
                                         Value(read.field.value.v,
                                               read.field.value.x, 0, 0))),
                      ev)
            ELSE Step(self1, b1, ResPanic, ev)
      [] decision.r = "ReadSlice" ->
            Step([self1 EXCEPT !.state =
                      State("Gathering", decision.tag, read_at, offset,
                            ReadField_field_len(read))],
                 b1, ResNone, ev)
      [] decision.r = "Skip" ->
            Step([self1 EXCEPT !.state =
                      State("Skipping", decision.tag, read_at, offset,
                            ReadField_field_len(read))],
                 b1, ResNone, ev)


\* a driver that reports every scalar as a Varint
advance_Ready_decided_value_as_varint(self, b, n, decision) ==
    LET read == [consumed |-> n.res.consumed, field |-> n.res.field]
        consumed == ReadField_consumed(read)
        b1 == Drop(b, consumed)
        read_at == self.offset
        offset == self.offset + consumed
        ev == <<Ev("decide_before", read_at, consumed, ReadField_field_len(read),
                   decision.r, decision.tag, self.matcher)>>
        self1 == [self EXCEPT !.offset = offset, !.reader = n.self,
                              !.matcher = decision.self]
    IN
    CASE decision.r = "Panic" -> Step(self1, b1, ResPanic, ev)
      [] decision.r = "Message" ->
            Step([self1 EXCEPT !.state = DecidingAfter], b1,
                 IF decision.tag # NoTag
                 THEN ResMatched(Matched(decision.tag, read_at, Marker))
                 ELSE ResNone,
                 ev)
      [] decision.r = "ReadValue" ->
            IF read.field.value.v \in {"Varint", "Fixed64", "Fixed32"}
            THEN Step([self1 EXCEPT !.state = DecidingAfter], b1,
                      ResMatched(Matched(decision.tag, read_at,
                                         Value("Varint",
                                               read.field.value.x, 0, 0))),
                      ev)
            ELSE Step(self1, b1, ResPanic, ev)
      [] decision.r = "ReadSlice" ->
            Step([self1 EXCEPT !.state =
                      State("Gathering", decision.tag, read_at, offset,
                            ReadField_field_len(read))],
                 b1, ResNone, ev)
      [] decision.r = "Skip" ->
            Step([self1 EXCEPT !.state =
                      State("Skipping", decision.tag, read_at, offset,
                            ReadField_field_len(read))],
                 b1, ResNone, ev)


\* State::Ready once the matcher has decided on the field that was read
advance_Ready_decided(self, b, n, decision) ==
    LET read == [consumed |-> n.res.consumed, field |-> n.res.field]
        consumed == ReadField_consumed(read)
        b1 == Drop(b, consumed)
        read_at == self.offset
        offset == self.offset + consumed
        ev == <<Ev("decide_before", read_at, consumed, ReadField_field_len(read),
                   decision.r, decision.tag, self.matcher)>>
        self1 == [self EXCEPT !.offset = offset, !.reader = n.self,
                              !.matcher = decision.self]
    IN
    CASE decision.r = "Panic" -> Step(self1, b1, ResPanic, ev)
      [] decision.r = "Message" ->
            Step([self1 EXCEPT !.state = DecidingAfter], b1,
                 IF decision.tag # NoTag
                 THEN ResMatched(Matched(decision.tag, read_at, Marker))
                 ELSE ResNone,
                 ev)
      [] decision.r = "ReadValue" ->
            IF read.field.value.v \in {"Varint", "Fixed64", "Fixed32"}
            THEN Step([self1 EXCEPT !.state = DecidingAfter], b1,
                      ResMatched(Matched(decision.tag, read_at,
                                         Value(read.field.value.v,
                                               read.field.value.x, 0, 0))),
                      ev)
            ELSE Step(self1, b1, ResPanic, ev)
      [] decision.r = "ReadSlice" ->
            Step([self1 EXCEPT !.state =
                      State("Gathering", decision.tag, read_at, offset,
                            ReadField_field_len(read))],
                 b1, ResNone, ev)
      [] decision.r = "Skip" ->
            Step([self1 EXCEPT !.state =
                      State("Skipping", decision.tag, read_at, offset,
                            ReadField_field_len(read))],
                 b1, ResNone, ev)

\* a driver that counts the bytes of an incomplete header as consumed
advance_Ready_read_eats_partial(self, b, n) ==
    IF n.res.r = "Err" THEN Step(self, b, ResErr(n.res.err), <<>>)
    ELSE IF n.res.r = "Status"
    THEN Step([self EXCEPT !.offset = @ + Len(b)], <<>>, ResStatus(n.res.status), <<>>)
    ELSE advance_Ready_decided(self, b, n,
             Matcher_decide_before(self.matcher, self.offset,
                 [consumed |-> n.res.consumed, field |-> n.res.field]))

\* State::Ready once self.reader.next(buf) has returned n: its error and status
\* leave the call, a field goes to the matcher with the offset of its first byte
advance_Ready_read(self, b, n) ==
    IF n.res.r = "Err" THEN Step(self, b, ResErr(n.res.err), <<>>)
    ELSE IF n.res.r = "Status" THEN Step(self, b, ResStatus(n.res.status), <<>>)
    ELSE advance_Ready_decided(self, b, n,
             Matcher_decide_before(self.matcher, self.offset,
                 [consumed |-> n.res.consumed, field |-> n.res.field]))

advance_Ready(self, b) == advance_Ready_read(self, b, FieldReader_next(self.reader, b))

advance(self, b) ==
    CASE self.state.k = "DecidingAfter" -> advance_DecidingAfter(self, b)
      [] self.state.k = "Gathering" -> advance_Gathering(self, b)
      [] self.state.k = "Skipping" -> advance_Skipping(self, b)
      [] self.state.k = "Ready" -> advance_Ready(self, b)

\* MatcherFields::next: loop { advance } until a match, a status or an error.
RECURSIVE MatcherFields_next_loop(_, _, _)
RECURSIVE MatcherFields_next_advanced(_, _)

\* what the loop does with a, the outcome of one advance
MatcherFields_next_advanced(a, ev) ==
    IF a.res.r = "None"
    THEN MatcherFields_next_loop(a.self, a.buf, ev \o a.ev)
    ELSE Step(a.self, a.buf, a.res, ev \o a.ev)

MatcherFields_next_loop(self, b, ev) == MatcherFields_next_advanced(advance(self, b), ev)

MatcherFields_next(self, b) == MatcherFields_next_loop(self, b, <<>>)

----------------------------------------------------------------------------
(* gather_fields.rs: Slicer *)

Slicer_wrap(buffer, last_offset) ==
    [buffer |-> buffer,
     first_offset |-> IF last_offset >= Len(buffer) THEN last_offset - Len(buffer)
                      ELSE 0]

\* a slicer that takes the range for a range of the buffer
Slicer_as_slice_unadjusted(self, s, e) ==
    IF e < s \/ e > Len(self.buffer)
    THEN [r |-> "Panic", bytes |-> <<>>]
    ELSE [r |-> "Ok", bytes |-> SubSeq(self.buffer, s + 1, e)]

\* range.start - first_offset underflows, or the adjusted range leaves the buffer:
\* the call panics (in a release build the wrapped index is out of range as well).
Slicer_as_slice(self, s, e) ==
    IF s < self.first_offset \/ e < s \/ e - self.first_offset > Len(self.buffer)
    THEN [r |-> "Panic", bytes |-> <<>>]
    ELSE [r |-> "Ok",
          bytes |-> SubSeq(self.buffer, s - self.first_offset + 1, e - self.first_offset)]

----------------------------------------------------------------------------
(* examples/ipfs.rs: PBLinkGatherer *)

None == [some |-> FALSE, s |-> 0, e |-> 0, x |-> {}]

SomeRange(s, e) == [some |-> TRUE, s |-> s, e |-> e, x |-> {}]

SomeU64(x) == [some |-> TRUE, s |-> 0, e |-> 0, x |-> x]

SomeOffset(o) == [some |-> TRUE, s |-> o, e |-> 0, x |-> {}]

PBLinkGatherer_default == [hash |-> None, name |-> None, total_size |-> None]

PBLink(hash, name, total_size) == [hash |-> hash, name |-> name, total_size |-> total_size]

NoPBLink == PBLink(<<>>, <<>>, {})

IsCont(b) == b \in 128..191

\* std::str::from_utf8(name) is Ok
RECURSIVE from_utf8_ok(_)
from_utf8_ok(s) ==
    IF s = <<>> THEN TRUE
    ELSE LET b == s[1] IN
         IF b < 128 THEN from_utf8_ok(Drop(s, 1))
         ELSE IF b \in 194..223
         THEN Len(s) >= 2 /\ IsCont(s[2]) /\ from_utf8_ok(Drop(s, 2))
         ELSE IF b \in 224..239
         THEN /\ Len(s) >= 3
              /\ s[2] \in (IF b = 224 THEN 160..191 ELSE IF b = 237 THEN 128..159
                           ELSE 128..191)
              /\ IsCont(s[3])
              /\ from_utf8_ok(Drop(s, 3))
         ELSE IF b \in 240..244
         THEN /\ Len(s) >= 4
              /\ s[2] \in (IF b = 240 THEN 144..191 ELSE IF b = 244 THEN 128..143
                           ELSE 128..191)
              /\ IsCont(s[3])
              /\ IsCont(s[4])
              /\ from_utf8_ok(Drop(s, 4))
         ELSE FALSE

\* r = "Some" (Ok(Some(PBLink))), "None" (Ok(None)) or "Panic"
Updated(self, r, val, ev) == [self |-> self, r |-> r, val |-> val, ev |-> ev]

PBLinkGatherer_update_end(self, slicer) ==
    IF self.hash.some /\ self.name.some /\ self.total_size.some
    THEN LET taken == PBLinkGatherer_default
             hash == Slicer_as_slice(slicer, self.hash.s, self.hash.e)
             name == Slicer_as_slice(slicer, self.name.s, self.name.e)
             ev1 == <<EvB("as_slice", self.hash.s, slicer.first_offset, self.hash.e,
                          hash.r, Tag("PbLinkHash", 0), Top, hash.bytes)>>
             ev2 == <<EvB("as_slice", self.name.s, slicer.first_offset, self.name.e,
                          name.r, Tag("PbLinkName", 0), Top, name.bytes)>>
         IN IF hash.r = "Panic" THEN Updated(taken, "Panic", NoPBLink, ev1)
            ELSE IF name.r = "Panic" \/ ~from_utf8_ok(name.bytes)
            THEN Updated(taken, "Panic", NoPBLink, ev1 \o ev2)
            ELSE Updated(taken, "Some",
                         PBLink(hash.bytes, name.bytes, self.total_size.x),
                         ev1 \o ev2)
    ELSE Updated(self, "None", NoPBLink, <<>>)

PBLinkGatherer_update(self, matched, slicer) ==
    LET range == IF matched.value.v = "Slice"
                 THEN SomeRange(matched.value.s, matched.value.e)
                 ELSE None
    IN CASE matched.tag.t = "EndPbLink" -> PBLinkGatherer_update_end(self, slicer)
         [] matched.tag.t = "PbLinkHash" ->
               Updated([self EXCEPT !.hash = range], "None", NoPBLink, <<>>)
         [] matched.tag.t = "PbLinkName" ->
               Updated([self EXCEPT !.name = range], "None", NoPBLink, <<>>)
         [] matched.tag.t = "PbLinkTotalSize" ->
               Updated([self EXCEPT !.total_size =
                            IF matched.value.v = "Varint"
                            THEN SomeU64(matched.value.x) ELSE None],
                       "None", NoPBLink, <<>>)
         [] OTHER -> Updated(self, "None", NoPBLink, <<>>)

PBLinkGatherer_min_offset(self) ==
    IF self.hash.some /\ self.name.some
    THEN SomeOffset(Min(self.hash.s, self.name.s))
    ELSE IF self.hash.some THEN SomeOffset(self.hash.s)
    ELSE IF self.name.some THEN SomeOffset(self.name.s)
    ELSE None

----------------------------------------------------------------------------
(* gather_fields.rs: Gatherer, GatheredFields *)

Gatherer_update(self, matched, slicer) == PBLinkGatherer_update(self, matched, slicer)

Gatherer_min_offset(self) == PBLinkGatherer_min_offset(self)

GatheredFields_new(matcher, g) ==
    [reader |-> MatcherFields_new(matcher), gatherer |-> g, cached_min_offset |-> None]

\* What GatheredFields::next returns: Ok(Ok(value)) is r = "Returned",
\* Ok(Err(status)) "Status", Err(e) "Err"; "Panic" is a panic inside the call.
GRes(r, val, status, err) == [r |-> r, val |-> val, status |-> status, err |-> err]

GStep(self, b, res, ev) == [self |-> self, buf |-> b, res |-> res, ev |-> ev]

\* a driver that hands back the inner reader's position whatever is held
GatheredFields_return_releases(self, b, tmp, res, ev) ==
    LET cached == IF ~self.cached_min_offset.some
                  THEN Gatherer_min_offset(self.gatherer)
                  ELSE self.cached_min_offset
        self1 == [self EXCEPT !.cached_min_offset = cached]
    IN GStep(self1, tmp, res, ev)

\* a driver that does not look the minimum up again before it returns
GatheredFields_return_keeps_cache(self, b, tmp, res, ev) ==
    GStep(self, IF ~self.cached_min_offset.some THEN tmp ELSE b, res, ev)

\* The tail of next once ret is Some: refresh the cached minimum, and release the
\* bytes the inner reader went over only when nothing is held.
GatheredFields_return(self, b, tmp, res, ev) ==
    LET cached == IF ~self.cached_min_offset.some
                  THEN Gatherer_min_offset(self.gatherer)
                  ELSE self.cached_min_offset
        self1 == [self EXCEPT !.cached_min_offset = cached]
    IN GStep(self1, IF ~cached.some THEN tmp ELSE b, res, ev)

RECURSIVE GatheredFields_next_loop(_, _, _, _)
RECURSIVE GatheredFields_next_read(_, _, _, _)
RECURSIVE GatheredFields_next_updated(_, _, _, _, _)

\* the loop once self.gatherer.update(matched, slicer) has returned u
GatheredFields_next_updated(self1, b, n, ev, u) ==
    LET self2 == [self1 EXCEPT !.gatherer = u.self, !.cached_min_offset = None]
    IN CASE u.r = "Panic" ->
               GStep(self2, b, GRes("Panic", NoPBLink, "-", NoError), ev \o u.ev)
         [] u.r = "Some" ->
               GatheredFields_return(self2, b, n.buf,
                                     GRes("Returned", u.val, "-", NoError),
                                     ev \o u.ev)
         [] u.r = "None" ->
               GatheredFields_next_loop(self2, b, n.buf, ev \o u.ev)

\* the loop once self.reader.next(&mut tmp) has returned n (n.buf is tmp afterwards)
GatheredFields_next_read(self, b, ev, n) ==
    LET self1 == [self EXCEPT !.reader = n.self]
    IN
    CASE n.res.r = "Err" -> GStep(self1, b, GRes("Err", NoPBLink, "-", n.res.err), ev \o n.ev)
      [] n.res.r = "Panic" -> GStep(self1, b, GRes("Panic", NoPBLink, "-", NoError), ev \o n.ev)
      [] n.res.r = "Status" ->
            GatheredFields_return(self1, b, n.buf,
                                  GRes("Status", NoPBLink, n.res.status, NoError),
                                  ev \o n.ev)
      [] n.res.r = "Matched" ->
            GatheredFields_next_updated(self1, b, n, ev \o n.ev,
                Gatherer_update(self.gatherer, n.res.m,
                    Slicer_wrap(Take(b, Len(b) - Len(n.buf)), n.self.offset)))

GatheredFields_next_loop(self, b, tmp, ev) ==
    GatheredFields_next_read(self, b, ev, MatcherFields_next(self.reader, tmp))

\* &buf[diff..] panics when the inner reader's offset is before the cached minimum
\* (the subtraction underflows) or diff is past the end of buf.
GatheredFields_next(self, b) ==
    IF self.cached_min_offset.some
    THEN LET min == self.cached_min_offset.s IN
         IF self.reader.offset < min \/ self.reader.offset - min > Len(b)
         THEN GStep(self, b, GRes("Panic", NoPBLink, "-", NoError), <<>>)
         ELSE GatheredFields_next_loop(self, b, Drop(b, self.reader.offset - min), <<>>)
    ELSE GatheredFields_next_loop(self, b, b, <<>>)

----------------------------------------------------------------------------
(* io_ext/read.rs: ReadWrapper<IO, R>, a growing buffer between a blocking byte  *)
(* source and a Reader. R is GatheredFields<Document, PBLinkGatherer>, the       *)
(* crate's implementation of Reader; IO is an in-memory source holding data, of  *)
(* which fed bytes have been read.                                               *)

\* the amount the buffer is grown by: 8192 in ReadWrapper::new (64 in
\* ReaderGatheredFields::new), scaled down so that the sample streams fill the
\* buffer and make it drain and grow
grow_by == 4

ReadWrapper_new ==
    [buffer |-> <<>>, capacity |-> grow_by, at_offset |-> 0,
     exhausted |-> FALSE, eof_after_buffer |-> FALSE]

ReadError(k, e) == [k |-> k, e |-> e]

UnexpectedEndOfFile == ReadError("UnexpectedEndOfFile", NoError)

Decoding(e) == ReadError("Decoding", e)

NoReadError == ReadError("-", NoError)

\* What a round of read_next's loop came to: r is "Some" for Ok(Some(m)), "OkNone"
\* for Ok(None), "Err", "Panic", or "Loop" when the loop goes round again; status
\* is the Status the wrapped Reader returned in this round ("-" if none).
RRes(r, val, status, err) == [r |-> r, val |-> val, status |-> status, err |-> err]

RStep(self, m, res) == [self |-> self, m |-> m, res |-> res]

\* a wrapper that drains the released prefix and goes on from the old at_offset
maybe_fill_drained_keeps_offset(self) ==
    IF Len(self.buffer) = self.capacity /\ self.at_offset # 0
    THEN [self EXCEPT !.buffer = Drop(self.buffer, self.at_offset)]
    ELSE self

\* maybe_fill, up to the read: a full buffer drops the prefix before at_offset
maybe_fill_drained(self) ==
    IF Len(self.buffer) = self.capacity /\ self.at_offset # 0
    THEN [self EXCEPT !.buffer = Drop(self.buffer, self.at_offset), !.at_offset = 0]
    ELSE self

\* the room maybe_fill offers to inner.read
needed_zeroes(self) ==
    IF self.capacity = Len(maybe_fill_drained(self).buffer)
    THEN grow_by
    ELSE self.capacity - Len(maybe_fill_drained(self).buffer)

\* maybe_fill reads only when exhausted and not at end of file
maybe_fill_reads(self) == self.exhausted /\ ~self.eof_after_buffer

\* The capacities the Vec may have after buffer.extend: unchanged while the zeroes
\* fit, otherwise at least what is required (Vec promises no growth strategy; the
\* standard library doubles).
extend_capacities(self) ==
    LET required == Len(maybe_fill_drained(self).buffer) + needed_zeroes(self)
    IN IF required <= self.capacity
       THEN {self.capacity}
       ELSE {required, IF 2 * self.capacity > required
                       THEN 2 * self.capacity ELSE required}

\* maybe_fill, where inner.read returned the bytes read and capacity is the Vec's
\* capacity after the extend
maybe_fill(self, read, capacity) ==
    IF maybe_fill_reads(self)
    THEN [maybe_fill_drained(self) EXCEPT !.buffer = @ \o read,
                                          !.capacity = capacity,
                                          !.eof_after_buffer = (read = <<>>)]
    ELSE self

\* a wrapper that goes round again on every Status, end of file or not
read_next_match_ignores_eof(self, m) ==
    CASE m.res.r = "Returned" ->
            RStep(self, m, RRes("Some", m.res.val, "-", NoReadError))
      [] OTHER ->
            RStep([self EXCEPT !.exhausted = TRUE], m,
                  RRes("Loop", NoPBLink, m.res.status, NoReadError))

\* a wrapper that takes a truncated field for the end of the session
read_next_match_eof_is_clean(self, m) ==
    CASE m.res.r = "Returned" ->
            RStep(self, m, RRes("Some", m.res.val, "-", NoReadError))
      [] m.res.r = "Status" /\ self.eof_after_buffer ->
            RStep(self, m, RRes("OkNone", NoPBLink, m.res.status, NoReadError))
      [] OTHER ->
            RStep([self EXCEPT !.exhausted = TRUE], m,
                  RRes("Loop", NoPBLink, m.res.status, NoReadError))

\* read_next: match ret { .. }
read_next_match(self, m) ==
    CASE m.res.r = "Returned" ->
            RStep(self, m, RRes("Some", m.res.val, "-", NoReadError))
      [] m.res.r = "Status" /\ m.res.status = "IdleAtEndOfBuffer"
           /\ self.eof_after_buffer ->
            RStep(self, m, RRes("OkNone", NoPBLink, m.res.status, NoReadError))
      [] m.res.r = "Status" /\ m.res.status = "NeedMoreBytes"
           /\ self.eof_after_buffer ->
            RStep(self, m, RRes("Err", NoPBLink, m.res.status, UnexpectedEndOfFile))
      [] OTHER ->
            RStep([self EXCEPT !.exhausted = TRUE], m,
                  RRes("Loop", NoPBLink, m.res.status, NoReadError))

\* read_next after matcher.next returned m: the ? leaves with the decoding error
\* before at_offset is moved; otherwise at_offset moves by what was consumed
read_next_returned(self, m) ==
    CASE m.res.r = "Err" ->
            RStep(self, m, RRes("Err", NoPBLink, "-", Decoding(m.res.err)))
      [] m.res.r = "Panic" ->
            RStep(self, m, RRes("Panic", NoPBLink, "-", NoReadError))
      [] OTHER ->
            read_next_match(
                [self EXCEPT !.at_offset =
                                 @ + ((Len(self.buffer) - self.at_offset) - Len(m.buf))],
                m)

\* one round of read_next's loop once maybe_fill is done:
\* matcher.next(&mut &buffer[at_offset..])
read_next_filled(self, matcher) ==
    read_next_returned(self,
                       GatheredFields_next(matcher, Drop(self.buffer, self.at_offset)))

----------------------------------------------------------------------------
(* The encoder the tests use (FieldValue::output_with_field_id): the tag varint  *)
(* (field id << 3 | wire type), then the value: a minimal LEB128 varint, 4 or 8  *)
(* little-endian bytes, or the length varint of a length-delimited field.        *)

MaxBit(S) == CHOOSE i \in S : \A j \in S : j <= i

encode_varint(S) ==
    LET n == IF S = {} THEN 1 ELSE (MaxBit(S) \div 7) + 1
    IN [g \in 1..n |->
           ToNat(Shr(S \cap (0..(7 * g - 1)), 7 * (g - 1)))
           + (IF g < n THEN 128 ELSE 0)]

encode_fixed(S, nbytes) ==
    [k \in 1..nbytes |-> ToNat(Shr(S \cap (0..(8 * k - 1)), 8 * (k - 1)))]

wire_type_bits(v) ==
    CASE v = "Varint" -> {}
      [] v = "Fixed64" -> {0}
      [] v = "DataLength" -> {1}
      [] v = "Fixed32" -> {0, 2}

encode_tag(id, v) == encode_varint(Shl(id, 3, U32Width) \cup wire_type_bits(v))

encode_value(v, x) ==
    CASE v \in {"Varint", "DataLength"} -> encode_varint(x)
      [] v = "Fixed64" -> encode_fixed(x, 8)
      [] v = "Fixed32" -> encode_fixed(x, 4)

output_with_field_id(v, x, id) == encode_tag(id, v) \o encode_value(v, x)

----------------------------------------------------------------------------
(* Bounds *)

\* field ids 2^0 .. 2^MaxIdBit are encoded (and the largest id, 2^29 - 1)
MaxIdBit == 4
\* an unterminated varint of up to MaxContBytes continuation bytes is decoded
MaxContBytes == 11

----------------------------------------------------------------------------
(* SpecFR: one encoded field header, handed to FieldReader::next prefix by     *)
(* prefix, one byte more each time.                                            *)

Unused ==
    /\ buf = <<>>
    /\ released = 0
    /\ mf = MatcherFields_new(Top)
    /\ gatherer = PBLinkGatherer_default
    /\ cached_min_offset = None
    /\ out = <<>>
    /\ log = <<>>
    /\ retries = 0
    /\ rw = ReadWrapper_new

IdSamples == {{i} : i \in 0..MaxIdBit} \cup {0..28}

ValueSamples(v) ==
    CASE v = "Varint" ->
            {{}, {1, 3, 5}, 0..63} \cup {{0, 7 * j} : j \in 1..9}
      [] v = "Fixed64" -> {{0}, {63}, {8, 40}, 0..63}
      [] v = "Fixed32" -> {{0}, {31}, {8, 20}, 0..31}
      [] v = "DataLength" -> {{}, {0}, {1, 4, 5, 6, 7}, {0, 14}, {0, 21}, {0, 28}, {30}}

FieldSamples ==
    UNION {[id : IdSamples, v : {v}, x : ValueSamples(v)] :
              v \in {"Varint", "Fixed64", "Fixed32", "DataLength"}}

FrNotCalled == [r |-> "None", status |-> "-", err |-> NoError,
                consumed |-> 0, field |-> NoFieldInfo]

FRInit ==
    /\ src \in FieldSamples
    /\ data = output_with_field_id(src.v, src.x, src.id)
    /\ fed = 0
    /\ fr = FieldReader_default
    /\ ret = FrNotCalled
    /\ Unused

\* fr.next(&buffer[..fed])
FRNext ==
    /\ ret.r = "None"
    /\ LET n == FieldReader_next(fr, Take(data, fed))
       IN /\ fr' = n.self
          /\ ret' = n.res
    /\ UNCHANGED <<rw, data, src, fed, buf, released, mf, gatherer, cached_min_offset,
                   out, log, retries>>

\* one more byte of the encoding becomes available
FRMore ==
    /\ fed < Len(data)
    /\ fed' = fed + 1
    /\ ret' = FrNotCalled
    /\ UNCHANGED <<rw, data, src, buf, released, fr, mf, gatherer, cached_min_offset,
                   out, log, retries>>

FRNextStep == FRNext \/ FRMore

SpecFR == FRInit /\ [][FRNextStep]_vars

----------------------------------------------------------------------------
(* SpecWT: a tag of any of the eight wire types followed by some bytes, handed  *)
(* to FieldReader::next prefix by prefix.                                       *)

\* the tag (field id << 3) | wire type, as a u32
TagOf(x) == Shl(x.id, 3, U32Width) \cup Bits(x.w)

TailSamples == {<<>>, <<5>>, <<128, 1>>, <<1, 2, 3, 4, 5, 6, 7, 8>>}

WTSamples == [id : IdSamples, w : 0..7, tail : TailSamples]

WTInit ==
    /\ src \in WTSamples
    /\ data = encode_varint(TagOf(src)) \o src.tail
    /\ fed = 0
    /\ fr = FieldReader_default
    /\ ret = FrNotCalled
    /\ Unused

SpecWT == WTInit /\ [][FRNextStep]_vars

----------------------------------------------------------------------------
(* SpecSL: Slicer::wrap on a buffer and a last offset, then as_slice on a range. *)

\* offsets up to MaxOffset are tried
MaxOffset == 6

SLSamples ==
    [buffer : {<<>>, <<7>>, <<1, 2, 3>>, <<4, 5, 6, 7>>},
     last_offset : 0..MaxOffset, s : 0..MaxOffset, e : 0..MaxOffset]

SLNotCalled == [r |-> "None", bytes |-> <<>>, first_offset |-> 0]

SLInit ==
    /\ src \in SLSamples
    /\ data = src.buffer
    /\ fed = 0
    /\ fr = FieldReader_default
    /\ ret = SLNotCalled
    /\ Unused

\* Slicer::wrap(buffer, last_offset).as_slice(&(s..e))
SLAsSlice ==
    /\ ret.r = "None"
    /\ ret' = [r |-> Slicer_as_slice(Slicer_wrap(data, src.last_offset), src.s, src.e).r,
               bytes |-> Slicer_as_slice(Slicer_wrap(data, src.last_offset),
                                         src.s, src.e).bytes,
               first_offset |-> Slicer_wrap(data, src.last_offset).first_offset]
    /\ UNCHANGED <<rw, data, src, fed, buf, released, fr, mf, gatherer,
                   cached_min_offset, out, log, retries>>

SpecSL == SLInit /\ [][SLAsSlice]_vars

----------------------------------------------------------------------------
(* SpecPb: read_varint32 and read_varint64 on the prefixes of k continuation   *)
(* bytes followed by an optional terminating byte and, after a terminating     *)
(* byte, optional further bytes.                                               *)

PbSamples ==
    {x \in [c : {128, 129, 255}, k : 0..MaxContBytes,
            term : {<<>>, <<0>>, <<1>>, <<127>>},
            tail : {<<>>, <<255>>, <<2, 128>>}] :
        x.term = <<>> => x.tail = <<>>}

PbNotCalled == [fn |-> "-", res |-> NeedMore]

PbInit ==
    /\ src \in PbSamples
    /\ data = [i \in 1..src.k |-> src.c] \o src.term \o src.tail
    /\ fed = 0
    /\ fr = FieldReader_default
    /\ ret = PbNotCalled
    /\ Unused

PbVarint32 ==
    /\ ret.fn = "-"
    /\ ret' = [fn |-> "read_varint32", res |-> read_varint32(Take(data, fed))]
    /\ UNCHANGED <<rw, data, src, fed, buf, released, fr, mf, gatherer,
                   cached_min_offset, out, log, retries>>

PbVarint64 ==
    /\ ret.fn = "-"
    /\ ret' = [fn |-> "read_varint64", res |-> read_varint64(Take(data, fed))]
    /\ UNCHANGED <<rw, data, src, fed, buf, released, fr, mf, gatherer,
                   cached_min_offset, out, log, retries>>

PbMore ==
    /\ fed < Len(data)
    /\ fed' = fed + 1
    /\ ret' = PbNotCalled
    /\ UNCHANGED <<rw, data, src, buf, released, fr, mf, gatherer, cached_min_offset,
                   out, log, retries>>

PbNextStep == PbVarint32 \/ PbVarint64 \/ PbMore

SpecPb == PbInit /\ [][PbNextStep]_vars

----------------------------------------------------------------------------
(* The input streams of the driver specifications: an optional top-level field, *)
(* one field 2 (a PBLink) whose declared length is the length of its inner      *)
(* fields plus delta, and an optional field after it.                            *)

\* the caller polls at most MaxRetries times after a Status without new bytes
MaxRetries == 1
\* a PBLink holds at most MaxInner inner fields
MaxInner == 4

HashField == <<10, 2, 65, 66>>          \* field 1, bytes "AB"
NameField == <<18, 1, 120>>             \* field 2, string "x"
SizeField == <<24, 5>>                  \* field 3, varint 5
ExtraBytesField == <<42, 2, 99, 100>>   \* field 5, bytes "cd"

InnerMenu == <<HashField, NameField, SizeField, ExtraBytesField>>

TopBytesField == <<26, 3, 1, 2, 3>>     \* top-level field 3, 3 bytes
TopVarintField == <<8, 7>>              \* top-level field 1, varint 7

\* a second PBLink: name "y", hash "CD", size 6
SecondLink == <<18, 9, 18, 1, 121, 10, 2, 67, 68, 24, 6>>

RECURSIVE Flatten(_)
Flatten(ss) == IF ss = <<>> THEN <<>> ELSE ss[1] \o Flatten(Drop(ss, 1))

IsInjective(f) == \A i, j \in DOMAIN f : f[i] = f[j] => i = j

InnerSeqs ==
    {f \in UNION {[1..n -> 1..Len(InnerMenu)] : n \in 0..MaxInner} : IsInjective(f)}

InnerBytes(inner) == Flatten([i \in 1..Len(inner) |-> InnerMenu[inner[i]]])

Frame(pre, delta, post) == [pre |-> pre, delta |-> delta, post |-> post]

Frames ==
    {Frame(<<>>, 0, <<>>), Frame(TopBytesField, 0, <<>>), Frame(<<>>, 0, SecondLink),
     Frame(<<>>, -1, TopVarintField), Frame(<<>>, 1, TopVarintField)}

StreamSamples ==
    {x \in [frame : Frames, inner : InnerSeqs] :
        Len(InnerBytes(x.inner)) + x.frame.delta >= 0}

StreamOf(x) ==
    x.frame.pre \o <<18, Len(InnerBytes(x.inner)) + x.frame.delta>>
        \o InnerBytes(x.inner) \o x.frame.post

----------------------------------------------------------------------------
(* SpecMF: MatcherFields<Document> driven by a caller that hands over the      *)
(* stream in chunks of any size and keeps the unconsumed remainder.             *)

MFInit ==
    /\ src \in StreamSamples
    /\ data = StreamOf(src)
    /\ fed = 0
    /\ buf = <<>>
    /\ released = 0
    /\ fr = FieldReader_default
    /\ mf = MatcherFields_new(Top)
    /\ gatherer = PBLinkGatherer_default
    /\ cached_min_offset = None
    /\ ret = ResNone
    /\ out = <<>>
    /\ log = <<>>
    /\ retries = 0
    /\ rw = ReadWrapper_new

SessionOver == ret.r \in {"Err", "Panic"}

\* the caller appends the next n bytes of the stream to what the driver left
Feed(n) ==
    /\ ~SessionOver
    /\ buf' = buf \o SubSeq(data, fed + 1, fed + n)
    /\ fed' = fed + n
    /\ retries' = 0

MFFeed ==
    \E n \in 1..(Len(data) - fed) :
        /\ Feed(n)
        /\ ret' = ResNone
        /\ UNCHANGED <<rw, data, src, released, fr, mf, gatherer, cached_min_offset,
                       out, log>>

\* the caller takes over what the call left: n.self, the remainder n.buf, n.res
MFReturned(n) ==
    /\ mf' = n.self
    /\ buf' = n.buf
    /\ released' = released + (Len(buf) - Len(n.buf))
    /\ ret' = n.res
    /\ out' = IF n.res.r = "Matched" THEN Append(out, n.res.m) ELSE out
    /\ log' = log \o n.ev

\* matcher_fields.next(&mut buf)
MFNext ==
    /\ ~SessionOver
    /\ ret.r = "Status" => retries < MaxRetries
    /\ MFReturned(MatcherFields_next(mf, buf))
    /\ retries' = IF ret.r = "Status" THEN retries + 1 ELSE 0
    /\ UNCHANGED <<rw, data, src, fed, fr, gatherer, cached_min_offset>>

MFNextStep == MFFeed \/ MFNext

SpecMF == MFInit /\ [][MFNextStep]_vars

----------------------------------------------------------------------------
(* SpecPM: MatcherFields<PathMatcher> driven like SpecMF, on streams of nested *)
(* messages that end at the same or at different offsets.                      *)

PMSamples ==
    {\* path 1/1/3: field 1 { field 1 { field 3 = 5 } }, both ending at offset 6
     [path |-> <<1, 1, 3>>, leaf_type |-> "U64", stream |-> <<10, 4, 10, 2, 24, 5>>],
     [path |-> <<1, 1, 3>>, leaf_type |-> "U64",
      stream |-> <<10, 4, 10, 2, 24, 5, 10, 4, 10, 2, 24, 5>>],
     \* the outer message goes on after the inner one
     [path |-> <<1, 1, 3>>, leaf_type |-> "U64",
      stream |-> <<10, 6, 10, 2, 24, 5, 24, 7>>],
     \* an empty inner message, a field that is not on the path
     [path |-> <<1, 1, 3>>, leaf_type |-> "U64",
      stream |-> <<10, 6, 10, 0, 16, 1, 24, 9>>],
     \* the inner message declares one byte more than the outer one holds
     [path |-> <<1, 1, 3>>, leaf_type |-> "U64",
      stream |-> <<10, 3, 10, 2, 24, 5, 24, 1>>],
     \* three messages ending at offset 8
     [path |-> <<1, 1, 1, 3>>, leaf_type |-> "U64",
      stream |-> <<10, 6, 10, 4, 10, 2, 24, 5>>],
     \* a length-delimited leaf, gathered, and one of the wrong type
     [path |-> <<1, 1, 2>>, leaf_type |-> "Slice",
      stream |-> <<10, 5, 10, 3, 18, 1, 120>>],
     [path |-> <<1, 1, 2>>, leaf_type |-> "U64",
      stream |-> <<10, 5, 10, 3, 18, 1, 120>>],
     \* a one-element path: no sub-message is entered
     [path |-> <<3>>, leaf_type |-> "U64", stream |-> <<24, 5, 10, 1, 0, 24, 6>>],
     \* fields off the path: three bytes and a varint, skipped
     [path |-> <<3>>, leaf_type |-> "U64", stream |-> <<10, 3, 1, 2, 3, 16, 7, 24, 6>>],
     \* leaves of every scalar wire type: varint 300, fixed64, fixed32
     [path |-> <<3>>, leaf_type |-> "U64",
      stream |-> <<24, 172, 2, 25, 1, 2, 3, 4, 5, 6, 7, 8, 29, 9, 10, 11, 12>>],
     [path |-> <<1, 3>>, leaf_type |-> "F32",
      stream |-> <<10, 7, 29, 1, 0, 0, 128, 24, 1>>]}

PMInit ==
    /\ src \in PMSamples
    /\ data = src.stream
    /\ fed = 0
    /\ buf = <<>>
    /\ released = 0
    /\ fr = FieldReader_default
    /\ mf = MatcherFields_new(PathMatcher_new(src.path, src.leaf_type))
    /\ gatherer = PBLinkGatherer_default
    /\ cached_min_offset = None
    /\ ret = ResNone
    /\ out = <<>>
    /\ log = <<>>
    /\ retries = 0
    /\ rw = ReadWrapper_new

SpecPM == PMInit /\ [][MFNextStep]_vars

----------------------------------------------------------------------------
(* SpecGF: GatheredFields<Document, PBLinkGatherer> driven the same way.       *)

GResNone == GRes("None", NoPBLink, "-", NoError)

GFInit ==
    /\ src \in StreamSamples
    /\ data = StreamOf(src)
    /\ fed = 0
    /\ buf = <<>>
    /\ released = 0
    /\ fr = FieldReader_default
    /\ mf = MatcherFields_new(Top)
    /\ gatherer = PBLinkGatherer_default
    /\ cached_min_offset = None
    /\ ret = GResNone
    /\ out = <<>>
    /\ log = <<>>
    /\ retries = 0
    /\ rw = ReadWrapper_new

GFFeed ==
    \E n \in 1..(Len(data) - fed) :
        /\ Feed(n)
        /\ ret' = GResNone
        /\ UNCHANGED <<rw, data, src, released, fr, mf, gatherer, cached_min_offset,
                       out, log>>

\* the caller takes over what the call left: n.self, the remainder n.buf, n.res
GFReturned(n) ==
    /\ mf' = n.self.reader
    /\ gatherer' = n.self.gatherer
    /\ cached_min_offset' = n.self.cached_min_offset
    /\ buf' = n.buf
    /\ released' = released + (Len(buf) - Len(n.buf))
    /\ ret' = n.res
    /\ out' = IF n.res.r = "Returned" THEN Append(out, n.res.val) ELSE out
    /\ log' = log \o n.ev

\* gathered_fields.next(&mut buf)
GFNext ==
    /\ ~SessionOver
    /\ ret.r = "Status" => retries < MaxRetries
    /\ GFReturned(GatheredFields_next(
                      [reader |-> mf, gatherer |-> gatherer,
                       cached_min_offset |-> cached_min_offset], buf))
    /\ retries' = IF ret.r = "Status" THEN retries + 1 ELSE 0
    /\ UNCHANGED <<rw, data, src, fed, fr>>

GFNextStep == GFFeed \/ GFNext

SpecGF == GFInit /\ [][GFNextStep]_vars

----------------------------------------------------------------------------
(* SpecRW: ReadWrapper over GatheredFields reading a sample stream that may be *)
(* cut short anywhere, from a byte source that hands over any number of bytes   *)
(* per read, up to the room offered, and 0 at its end.                          *)

RWSamples ==
    {x \in [frame : Frames, inner : InnerSeqs, cut : 0..(2 * MaxInner + 12)] :
        /\ Len(x.inner) <= 2
        /\ Len(InnerBytes(x.inner)) + x.frame.delta >= 0
        /\ x.cut <= Len(StreamOf(x))}

RResNone == RRes("-", NoPBLink, "-", NoReadError)

RWInit ==
    /\ src \in RWSamples
    /\ data = Take(StreamOf(src), src.cut)
    /\ fed = 0
    /\ buf = <<>>
    /\ released = 0
    /\ fr = FieldReader_default
    /\ mf = MatcherFields_new(Top)
    /\ gatherer = PBLinkGatherer_default
    /\ cached_min_offset = None
    /\ ret = RResNone
    /\ out = <<>>
    /\ log = <<>>
    /\ retries = 0
    /\ rw = ReadWrapper_new

\* what inner.read may return: nothing at the end of the source, otherwise any
\* number of bytes up to the room offered
ReadSizes ==
    IF ~maybe_fill_reads(rw) \/ fed = Len(data)
    THEN {0}
    ELSE 1..Min(needed_zeroes(rw), Len(data) - fed)

\* the caller and the wrapper take over what the round left
RWReturned(n) ==
    /\ rw' = n.self
    /\ mf' = n.m.self.reader
    /\ gatherer' = n.m.self.gatherer
    /\ cached_min_offset' = n.m.self.cached_min_offset
    /\ buf' = Drop(n.self.buffer, n.self.at_offset)
    /\ released' = released + (n.self.at_offset
                                 - maybe_fill(rw, <<>>, rw.capacity).at_offset)
    /\ ret' = n.res
    /\ out' = IF n.res.r = "Some" THEN Append(out, n.res.val) ELSE out
    /\ log' = log \o n.m.ev

\* one round of the loop of read_next: maybe_fill, matcher.next, the match
RWRound ==
    \E n \in ReadSizes : \E capacity \in extend_capacities(rw) :
        /\ RWReturned(read_next_filled(
               maybe_fill(rw, SubSeq(data, fed + 1, fed + n), capacity),
               [reader |-> mf, gatherer |-> gatherer,
                cached_min_offset |-> cached_min_offset]))
        /\ fed' = fed + n
        /\ UNCHANGED <<data, src, fr, retries>>

\* read_wrapper.read_next(), first round
RWReadNext ==
    /\ ret.r \in {"-", "Some"}
    /\ RWRound

\* read_next goes round its loop again
RWLoop ==
    /\ ret.r = "Loop"
    /\ RWRound

RWNextStep == RWReadNext \/ RWLoop

SpecRW == RWInit /\ [][RWNextStep]_vars

----------------------------------------------------------------------------
(* SpecRA: ReadWrapper over any Reader. R is only known by the Reader trait:   *)
(* next may advance the buffer it is handed by any number of bytes and return  *)
(* a value, either Status or a decoding error. The source holds the bytes      *)
(* 1, 2, .. and its read may fail.                                             *)

\* the sources hold up to MaxStream bytes
MaxStream == 5

\* the Reader returns up to MaxItems values in a session
MaxItems == 2

\* what Reader::next may come to on the buffer b
AnyReader_next(b) ==
    {GStep(<<>>, Drop(b, k), res, <<>>) :
        k \in 0..Len(b),
        res \in {GRes("Returned", NoPBLink, "-", NoError),
                 GRes("Status", NoPBLink, "IdleAtEndOfBuffer", NoError),
                 GRes("Status", NoPBLink, "NeedMoreBytes", NoError),
                 GRes("Err", NoPBLink, "-", DecodingError("UnknownWireType", {}, 0, 0))}}

RAInit ==
    /\ src \in 0..MaxStream
    /\ data = [i \in 1..src |-> i]
    /\ fed = 0
    /\ fr = FieldReader_default
    /\ ret = RResNone
    /\ Unused

\* one round of read_next's loop, the first of a call or a further one:
\* maybe_fill, where inner.read fails or returns bytes, then matcher.next
RANext ==
    /\ ret.r \in {"-", "Some", "Loop"}
    /\ \/ /\ maybe_fill_reads(rw)
          /\ rw' = [maybe_fill_drained(rw) EXCEPT
                        !.buffer = @ \o [i \in 1..needed_zeroes(rw) |-> 0]]
          /\ ret' = RRes("Err", NoPBLink, "-", ReadError("IO", NoError))
          /\ UNCHANGED <<fed, buf, released, out>>
       \/ \E n \in ReadSizes : \E capacity \in extend_capacities(rw) :
          \E m \in AnyReader_next(
                       Drop(maybe_fill(rw, SubSeq(data, fed + 1, fed + n),
                                       capacity).buffer,
                            maybe_fill(rw, SubSeq(data, fed + 1, fed + n),
                                       capacity).at_offset)) :
             /\ m.res.r = "Returned" => Len(out) < MaxItems
             /\ rw' = read_next_returned(
                          maybe_fill(rw, SubSeq(data, fed + 1, fed + n), capacity),
                          m).self
             /\ ret' = read_next_returned(
                           maybe_fill(rw, SubSeq(data, fed + 1, fed + n), capacity),
                           m).res
             /\ buf' = Drop(rw'.buffer, rw'.at_offset)
             /\ released' = released + (rw'.at_offset
                                          - maybe_fill(rw, <<>>, rw.capacity).at_offset)
             /\ out' = IF ret'.r = "Some" THEN Append(out, ret'.val) ELSE out
             /\ fed' = fed + n
    /\ UNCHANGED <<data, src, fr, mf, gatherer, cached_min_offset, log, retries>>

\* read_next's loop is one thread of control: once it goes round again, the
\* next round is made
SpecRA == RAInit /\ [][RANext]_vars /\ WF_vars(ret.r = "Loop" /\ RANext)

----------------------------------------------------------------------------
(* Claims about FieldReader and the varint codec *)

ReadFieldOf(res) == [consumed |-> res.consumed, field |-> res.field]

AllCont(s) == \A i \in 1..Len(s) : s[i] >= 128

\* C1 (SpecFR): FieldReader::next returns NeedMoreBytes on every non-empty proper
\* prefix of an encoded field header, and on the whole encoding it returns the
\* field, the same result as one call of a fresh reader on the whole encoding.
C1_IncrementalFeed ==
    (ret.r # "None" /\ fed >= 1) =>
        IF fed < Len(data)
        THEN ret = FrStatus("NeedMoreBytes")
        ELSE /\ ret.r = "Field"
             /\ ret.field.kind =
                    (IF src.v = "DataLength" THEN "LengthDelimited" ELSE src.v)
             /\ ret.field.value = [v |-> src.v, x |-> src.x]
             /\ ret = FieldReader_next(FieldReader_default, data).res
             /\ fr.field = ret.field

\* a 10-byte varint value, fed byte by byte, has been read
C1_Witness ==
    /\ src.v = "Varint"
    /\ Len(encode_varint(src.x)) = 10
    /\ fed = Len(data)
    /\ ret.r = "Field"

\* C2 (SpecFR): the field read back has the encoded field id, consumed = length of
\* the tag varint plus length of the value encoding, and field_len = the declared
\* length for a length-delimited field and 0 for every other wire type.
C2_RoundTrip ==
    ret.r = "Field" =>
        /\ ReadField_field_id(ReadFieldOf(ret)) = ToNat(src.id)
        /\ ReadField_consumed(ReadFieldOf(ret)) =
               Len(encode_tag(src.id, src.v))
               + (CASE src.v \in {"Varint", "DataLength"} -> Len(encode_varint(src.x))
                    [] src.v = "Fixed32" -> 4
                    [] src.v = "Fixed64" -> 8)
        /\ ReadField_field_len(ReadFieldOf(ret)) =
               (IF src.v = "DataLength" THEN ToNat(src.x) ELSE 0)

\* a length-delimited header with a 5-byte tag and a 5-byte length has been read
C2_Witness ==
    /\ ret.r = "Field"
    /\ src.v = "DataLength"
    /\ Len(encode_tag(src.id, src.v)) = 5
    /\ Len(encode_varint(src.x)) = 5
    /\ ReadField_field_len(ReadFieldOf(ret)) > 0

\* C8 (SpecPb): read_varint32 given 5 bytes that all have the continuation bit set
\* fails with TooManyVarint32Bytes.
C8_Varint32Boundary ==
    (ret.fn = "read_varint32" /\ fed = 5 /\ AllCont(Take(data, fed))) =>
        ret.res = VarintErr("TooManyVarint32Bytes")

\* C9 (SpecPb): read_varint64 given 10 bytes that all have the continuation bit set
\* fails with TooManyVarint64Bytes.
C9_Varint64Boundary ==
    (ret.fn = "read_varint64" /\ fed = 10 /\ AllCont(Take(data, fed))) =>
        ret.res = VarintErr("TooManyVarint64Bytes")

\* read_varint64 has been called on 10 continuation bytes
C9_Witness ==
    /\ ret.fn = "read_varint64"
    /\ fed = 10
    /\ AllCont(Take(data, fed))
    /\ ret.res.r = "Err"

----------------------------------------------------------------------------
(* Claims about the drivers *)

\* a step of the caller calling next again on what it holds (no bytes were added)
IsCall == fed' = fed

DecideBefores(l) == {i \in DOMAIN l : l[i].e = "decide_before"}

\* the latest decide_before call in l
LastDecideBefore(l) ==
    l[CHOOSE i \in DecideBefores(l) : \A j \in DecideBefores(l) : j <= i]

\* where the field of a decide_before call ends: header start + header + declared length
EndOf(ev) == ev.off + ev.hdr + ev.len

IsSkipTag(tag) == tag.t \in {"TopExtraField", "PbLinkExtraField"}

IsIdle(res) == res.r = "Status" /\ res.status = "IdleAtEndOfBuffer"

\* C3: Gatherer retention. Whatever the chunking, the buffer GatheredFields.next
\* leaves to the caller starts at or before gatherer.min_offset(), and every range
\* resolved through the Slicer yields, without a panic, exactly the bytes of the
\* stream at those global offsets.
C3_GathererRetention ==
    /\ Gatherer_min_offset(gatherer).some => released <= Gatherer_min_offset(gatherer).s
    /\ \A i \in DOMAIN log :
          log[i].e = "as_slice" =>
              /\ log[i].dec = "Ok"
              /\ log[i].len <= Len(data)
              /\ log[i].bytes = SubSeq(data, log[i].off + 1, log[i].len)

\* the stream of C4: field 2 wrapping field 1 = "AB", field 2 = "x", field 3 = 5
E2EStream == <<18, 9>> \o HashField \o NameField \o SizeField

E2EExpected == PBLink(<<65, 66>>, <<120>>, {0, 2})

\* C4: End-to-end. For E2EStream the Document matcher and the PBLink gatherer,
\* driven to the end of the input, emit exactly one aggregate,
\* {hash: [0x41, 0x42], name: "x", total_size: 5}, and then report
\* IdleAtEndOfBuffer; no call fails on the way.
C4_EndToEnd ==
    data = E2EStream =>
        /\ ret.r \notin {"Err", "Panic"}
        /\ out \in {<<>>, <<E2EExpected>>}
        /\ (fed = Len(data) /\ ret.r = "Status") =>
               /\ ret.status = "IdleAtEndOfBuffer"
               /\ out = <<E2EExpected>>

\* what C5 asks of one call of MatcherFields.next
C5_Call ==
    /\ mf.state.k = "Skipping" =>
          \* the call consumes min(remaining, available)
          /\ released' = released + Min(mf.state.amount, Len(buf))
          /\ mf'.offset = mf.offset + Min(mf.state.amount, Len(buf))
          /\ IF Len(buf) < mf.state.amount
             THEN /\ mf'.state.k = "Skipping"
                  /\ mf'.state.amount = mf.state.amount - Len(buf)
             ELSE /\ ret'.r = "Matched"
                  /\ IsSkipTag(ret'.m.tag)
    /\ mf'.state.k = "Skipping" =>
          \* a skip that is not over: NeedMoreBytes, nothing left with the caller
          /\ ret' = ResStatus("NeedMoreBytes")
          /\ buf' = <<>>
          /\ mf'.state.amount > 0
          /\ LastDecideBefore(log').dec = "Skip"
          /\ mf'.state.read_at = LastDecideBefore(log').off
          /\ mf'.offset + mf'.state.amount = EndOf(LastDecideBefore(log'))
    /\ (ret'.r = "Matched" /\ IsSkipTag(ret'.m.tag)) =>
          \* a skip that is over: the offset is header start + header + N
          /\ LastDecideBefore(log').dec = "Skip"
          /\ ret'.m.offset = LastDecideBefore(log').off
          /\ ret'.m.value = Slice(LastDecideBefore(log').off + LastDecideBefore(log').hdr,
                                  EndOf(LastDecideBefore(log')))
          /\ mf'.offset = EndOf(LastDecideBefore(log'))

\* C5: Skip is memory-bounded. After decide_before answers Skip for a field of
\* declared length N, every MatcherFields.next call in the Skipping state consumes
\* min(remaining, available) bytes: a NeedMoreBytes return leaves the caller's buf
\* empty and the remaining count smaller by the bytes consumed, and when the skip
\* is over the offset is header start + header size + N.
C5_SkipBounded == [][IsCall => C5_Call]_vars

\* a skip of 3 declared bytes of which some, not all, have been consumed
C5_Witness ==
    /\ mf.state.k = "Skipping"
    /\ LastDecideBefore(log).len = 3
    /\ mf.state.amount \in {1, 2}
    /\ ret = ResStatus("NeedMoreBytes")

\* what C6 asks of one call of MatcherFields.next
C6_Call ==
    /\ \A i \in DecideBefores(log') :
          log'[i].dec = "Message" =>
              \* no field that starts at O + h + L is read before decide_after(O + h + L)
              \A j \in DecideBefores(log') :
                  (j > i /\ log'[j].off = EndOf(log'[i])) =>
                      \E k \in (i + 1)..(j - 1) :
                          /\ log'[k].e = "decide_after"
                          /\ log'[k].off = EndOf(log'[i])
    /\ mf.matcher.m = "Link" =>
          /\ DecideBefores(log) # {}
          /\ \E i \in DecideBefores(log) :
                /\ log[i].dec = "Message"
                /\ mf.matcher.until = EndOf(log[i])
    /\ (mf.state.k = "DecidingAfter" /\ mf.matcher.m = "Link"
            /\ mf.offset = mf.matcher.until) =>
          \* the nested fields have filled the L bytes: the call asks decide_after
          \* first, and returns the closing Marker
          /\ Len(log') > Len(log)
          /\ log'[Len(log) + 1].e = "decide_after"
          /\ log'[Len(log) + 1].off = mf.matcher.until
          /\ ret' = ResMatched(Matched(Tag("EndPbLink", 0), mf.matcher.until, Marker))
          /\ buf' = buf

\* C6: Nesting boundary. When the matcher answers Message for a field whose header
\* starts at O, is h bytes long and declares L bytes, and the nested fields fill
\* exactly L bytes, the driver calls decide_after with offset O + h + L after the
\* last nested field and before it reads any field that starts there, and the
\* closing Marker carries that offset.
C6_NestingBoundary == [][IsCall => C6_Call]_vars

\* a field was read at O + h + L after the link was closed there, L > 0
C6_Witness ==
    \E i, j \in DecideBefores(log) :
        /\ log[i].dec = "Message"
        /\ log[i].len > 0
        /\ j > i
        /\ log[j].off = EndOf(log[i])
        /\ \E k \in (i + 1)..(j - 1) :
              /\ log[k].e = "decide_after"
              /\ log[k].off = EndOf(log[i])
              /\ log[k].tag = Tag("EndPbLink", 0)

\* C7: Nesting violation is a decode error. If a field header is read at or past
\* the remembered boundary until while the matcher is inside the nested message,
\* next returns DecodingError::FailedMatcherNesting(reached offset, until).
C7_NestingViolationIsError ==
    \A i \in DecideBefores(log) :
        (log[i].m.m = "Link" /\ log[i].off >= log[i].m.until) =>
            ret = ResErr(DecodingError("FailedMatcherNesting", {}, log[i].off,
                                       log[i].m.until))

\* what C10 asks of one call of next
C10_Call ==
    IsIdle(ret) =>
        /\ ret' = ret
        /\ mf' = mf
        /\ gatherer' = gatherer
        /\ cached_min_offset' = cached_min_offset
        /\ buf' = buf

\* C10: Idempotent idle. Once next has returned IdleAtEndOfBuffer, a further call
\* with the same buffer and no new bytes returns IdleAtEndOfBuffer again and
\* changes neither the driver's offset, nor its state, nor the caller's buf.
C10_IdempotentIdle == [][IsCall => C10_Call]_vars

\* what C11 asks of one call of GatheredFields.next that returns a value or a Status
C11_Call ==
    ret'.r \in {"Returned", "Status"} =>
        /\ cached_min_offset' = Gatherer_min_offset(gatherer')
        /\ IF Gatherer_min_offset(gatherer').some
           THEN \* an aggregate is pending: buf is handed back as it came
                /\ buf' = buf
                /\ released' <= Gatherer_min_offset(gatherer').s
           ELSE \* nothing is pending: buf starts where the inner reader stopped
                buf' = Drop(buf, (IF cached_min_offset.some
                                  THEN mf.offset - cached_min_offset.s ELSE 0)
                                 + (mf'.offset - mf.offset))

C12_OffsetNeverDecreases ==
    /\ mf.offset = 0
    /\ [][/\ mf'.offset >= mf.offset
          /\ (IsCall /\ Len(buf') < Len(buf)) => mf'.offset > mf.offset
          /\ (IsCall /\ ret'.r = "Status" /\ buf' = buf) => mf'.offset = mf.offset]_vars

\* the offset has grown, and the last call, a repeat on the same bytes, returned a
\* Status
C12_Witness ==
    /\ mf.offset > 0
    /\ ret.r = "Status"
    /\ retries = 1

\* C12 (as stated): the offset is strictly increasing across the whole session,
\* from one next call to the following one.
C12_OffsetStrictlyIncreasing == [][IsCall => mf'.offset > mf.offset]_vars

\* C13: Matches are emitted in stream order. In the sequence of Matched items that
\* successive MatcherFields.next calls return, the offset never decreases from one
\* item to the next, and the match of a field comes before the closing Marker that
\* decide_after produces at the offset following that field.
C13_StreamOrder ==
    /\ \A i \in 1..(Len(out) - 1) : out[i].offset <= out[i + 1].offset
    /\ \A j \in DOMAIN out :
          out[j].tag.t = "EndPbLink" =>
              /\ out[j].value = Marker
              /\ j > 1
              /\ out[j - 1].offset < out[j].offset
              /\ out[j - 1].value.v = "Slice" => out[j - 1].value.e = out[j].offset
              /\ \A i \in DOMAIN out :
                    (out[i].value.v = "Slice" /\ out[i].value.e = out[j].offset)
                        => i < j

\* a slice that ends where the link ends, then the closing Marker, then a field
\* that starts at the Marker's offset
C13_Witness ==
    \E j \in 2..(Len(out) - 1) :
        /\ out[j].tag.t = "EndPbLink"
        /\ out[j - 1].value.v = "Slice"
        /\ out[j - 1].value.e = out[j].offset
        /\ out[j + 1].offset = out[j].offset

IsPrefix(s, t) == Len(s) <= Len(t) /\ s = SubSeq(t, 1, Len(s))

\* The aggregates of a well-formed stream, in the order their links close: the
\* first link gives one when hash, name and total size are all among its inner
\* fields, in whatever order they come; SecondLink gives one.
ExpectedAggregates(x) ==
    (IF {1, 2, 3} \subseteq {x.inner[i] : i \in DOMAIN x.inner}
     THEN <<PBLink(<<65, 66>>, <<120>>, {0, 2})>> ELSE <<>>)
    \o (IF x.frame.post = SecondLink
        THEN <<PBLink(<<67, 68>>, <<121>>, {1, 2})>> ELSE <<>>)

\* C14: Aggregate order. GatheredFields emits the aggregates in the order in which
\* their closing tags are reached in the input, one per closed complete aggregate,
\* and an aggregate's content does not depend on the order in which its fields
\* arrived inside the nested message.
C14_AggregateOrder ==
    src.frame.delta = 0 =>
        /\ ret.r # "Panic"
        /\ IsPrefix(out, ExpectedAggregates(src))
        /\ (fed = Len(data) /\ IsIdle(ret)) => out = ExpectedAggregates(src)


\* C15: Offset accounting. While the caller passes back the unconsumed remainder
\* followed by new bytes, offset() equals the number of bytes by which the driver
\* has advanced the caller's buffer since construction: the buffer of every call
\* is the part of the stream from global offset offset() up to what was fed.
C15_OffsetAccounting ==
    /\ mf.offset = released
    /\ buf = SubSeq(data, mf.offset + 1, fed)

C15_Witness ==
    /\ ret.r = "Status" /\ ret.status = "NeedMoreBytes"
    /\ mf.state.k = "Skipping"
    /\ Len(out) >= 1
    /\ mf.offset > 0
    /\ buf = <<>>
    /\ fed < Len(data)


IsNeedMore(res) == res.r = "Status" /\ res.status = "NeedMoreBytes"

\* the bytes left in the buffer are the incomplete start of a field header
PartialHeader(self, b) ==
    /\ b # <<>>
    /\ FieldReader_next(self.reader, b).res = FrStatus("NeedMoreBytes")

\* C16: Status meaning. MatcherFields.next returns IdleAtEndOfBuffer only when the
\* driver is in state Ready and the buffer is empty, and returns NeedMoreBytes only
\* when it is mid-field: in Ready with an incomplete tag/value/length header in the
\* buffer, or with an unfinished buffered or skipped payload.
C16_StatusMeaning ==
    /\ IsIdle(ret) => (mf.state = Ready /\ buf = <<>>)
    /\ IsNeedMore(ret) =>
          \/ mf.state = Ready /\ PartialHeader(mf, buf)
          \/ mf.state.k = "Gathering" /\ Len(buf) < mf.state.amount
          \/ mf.state.k = "Skipping" /\ mf.state.amount > 0 /\ buf = <<>>

C16_Witness ==
    /\ IsNeedMore(ret)
    /\ mf.state = Ready
    /\ Len(buf) = 1
    /\ mf.matcher.m = "Link"
    /\ Len(out) >= 1


----------------------------------------------------------------------------
(* Claims about ReadWrapper *)

\* C17: ReadWrapper EOF mapping. Once the byte source has reported end of file (a
\* read returned 0 bytes), a NeedMoreBytes from the wrapped Reader makes read_next
\* return Err(ReadError::UnexpectedEndOfFile) and an IdleAtEndOfBuffer makes it
\* return Ok(None), and these are the only ways to either result; before end of
\* file either status ends no call: the loop goes round again, and that next round
\* reads from the source.
C17_Round ==
    /\ ret'.status = "NeedMoreBytes" =>
          IF rw'.eof_after_buffer
          THEN ret'.r = "Err" /\ ret'.err = UnexpectedEndOfFile
          ELSE ret'.r = "Loop" /\ rw'.exhausted
    /\ ret'.status = "IdleAtEndOfBuffer" =>
          IF rw'.eof_after_buffer
          THEN ret'.r = "OkNone"
          ELSE ret'.r = "Loop" /\ rw'.exhausted
    /\ ret'.r = "OkNone" =>
          ret'.status = "IdleAtEndOfBuffer" /\ rw'.eof_after_buffer
    /\ (ret'.r = "Err" /\ ret'.err = UnexpectedEndOfFile) =>
          ret'.status = "NeedMoreBytes" /\ rw'.eof_after_buffer
    /\ ret.r = "Loop" => (fed' > fed \/ (fed = Len(data) /\ rw'.eof_after_buffer))

C17_EofMapping == [][C17_Round]_vars

C17_Witness ==
    /\ ret.r = "Err" /\ ret.err = UnexpectedEndOfFile
    /\ rw.eof_after_buffer
    /\ fed = Len(data)
    /\ mf.state.k = "Gathering"
    /\ Len(rw.buffer) > grow_by

\* C18: ReadWrapper over GatheredFields tells where the stream ended: a source that
\* ends inside a nested message whose declared length has not been delivered in
\* full, also at a boundary between two inner fields, never ends read_next in
\* Ok(None), and a source that ends at top level after a complete item does.
CutInsideLink ==
    /\ src.frame.delta = 0
    /\ src.cut >= Len(src.frame.pre) + 2
    /\ src.cut < Len(src.frame.pre) + 2 + Len(InnerBytes(src.inner))

CutAfterLink ==
    /\ src.frame.delta = 0
    /\ src.cut = Len(src.frame.pre) + 2 + Len(InnerBytes(src.inner))

C18_EndInsideItem ==
    /\ CutInsideLink => ret.r # "OkNone"
    /\ (CutAfterLink /\ ret.r \in {"OkNone", "Err"}) => ret.r = "OkNone"


----------------------------------------------------------------------------
(* Claims about read_varint *)

\* the max_bytes the called function passes to read_varint
MaxBytesOf(fn) == IF fn = "read_varint32" THEN 5 ELSE 10

\* position of the first byte of d with the high bit clear, 0 if there is none
FirstClear(d) ==
    IF \A i \in DOMAIN d : d[i] >= 128 THEN 0
    ELSE CHOOSE i \in DOMAIN d : d[i] < 128 /\ \A j \in 1..(i - 1) : d[j] >= 128

\* C19: read_varint outcomes. read_varint(data, max_bytes) returns NeedMoreBytes
\* exactly when no byte of data has its high bit clear and len(data) < max_bytes,
\* a DecodingError exactly when the first max_bytes bytes of data all have the high
\* bit set, and otherwise (k, value) with k <= max_bytes the position of the first
\* byte with the high bit clear, the bytes after it making no difference.
C19_Outcomes ==
    ret.fn # "-" =>
        LET d == Take(data, fed)
            max_bytes == MaxBytesOf(ret.fn)
            k == FirstClear(d)
        IN /\ ret.res.r = "NeedMoreBytes" <=> (k = 0 /\ Len(d) < max_bytes)
           /\ ret.res.r = "Err" <=>
                 (Len(d) >= max_bytes /\ \A i \in 1..max_bytes : d[i] >= 128)
           /\ ret.res.r = "Ok" =>
                 /\ ret.res.n = k
                 /\ 1 <= k /\ k <= max_bytes
                 /\ ret.res = (IF ret.fn = "read_varint32"
                               THEN read_varint32(Take(d, k))
                               ELSE read_varint64(Take(d, k)))
           /\ ret.res.r \in {"NeedMoreBytes", "Err", "Ok"}

C19_Witness ==
    /\ ret.fn = "read_varint64"
    /\ ret.res.r = "Ok"
    /\ ret.res.n = 10
    /\ fed = 12
    /\ data[12] >= 128


\* C20: Varint value. The value read_varint64 returns for k consumed bytes
\* b_0..b_(k-1) is the sum of (b_i & 0x7f) * 2^(7*i) modulo 2^64 (bit 7*i + j of
\* the value is bit j of b_i, bits from 64 up are dropped), and decoding the
\* minimal LEB128 encoding of a value v returns (length of the encoding, v).
C20_VarintValue ==
    (ret.fn = "read_varint64" /\ ret.res.r = "Ok") =>
        LET d == Take(data, fed)
            k == ret.res.n
            v == ret.res.val
        IN /\ v = {b \in 0..(U64Width - 1) :
                      b \div 7 < k /\ (b % 7) \in Bits(d[(b \div 7) + 1])}
           /\ Len(encode_varint(v)) <= k
           /\ read_varint64(encode_varint(v)) = VarintOk(Len(encode_varint(v)), v)

C20_Witness ==
    /\ ret.fn = "read_varint64"
    /\ ret.res.r = "Ok"
    /\ ret.res.n = 10
    /\ data[10] = 127
    /\ 63 \in ret.res.val
    /\ Len(encode_varint(ret.res.val)) = 10


----------------------------------------------------------------------------
(* Claims about FieldReader on raw tags *)

WireTypeOf(w) ==
    CASE w = 0 -> "Varint"
      [] w = 1 -> "Fixed64"
      [] w = 2 -> "LengthDelimited"
      [] w = 5 -> "Fixed32"
      [] OTHER -> "-"

\* C21: Wire type decoding. FieldReader.next reports field_id = tag >> 3 and takes
\* tag & 0x7 = 0 for Varint, 1 for Fixed64, 2 for LengthDelimited and 5 for Fixed32;
\* low bits 3 or 4 fail with UnsupportedGroupWireType(tag) and 6 or 7 with
\* UnknownWireType(tag), as soon as the tag varint is complete and whether or not
\* value bytes follow; before the tag is complete no error is returned.
C21_WireTypes ==
    (ret.r # "None" /\ fed >= 1) =>
        LET taglen == Len(encode_varint(TagOf(src)))
        IN IF fed < taglen
           THEN ret = FrStatus("NeedMoreBytes")
           ELSE CASE src.w \in {3, 4} ->
                       ret = FrErr(DecodingError("UnsupportedGroupWireType",
                                                 TagOf(src), 0, 0))
                  [] src.w \in {6, 7} ->
                       ret = FrErr(DecodingError("UnknownWireType", TagOf(src), 0, 0))
                  [] OTHER ->
                       /\ ret.r \in {"Field", "Status"}
                       /\ ret.r = "Status" => ret.status = "NeedMoreBytes"
                       /\ ret.r = "Field" =>
                             /\ ReadField_field_id(ReadFieldOf(ret)) = ToNat(src.id)
                             /\ ReadField_wire_type(ReadFieldOf(ret)) = WireTypeOf(src.w)

C21_Witness ==
    /\ ret.r = "Err"
    /\ ret.err.e = "UnsupportedGroupWireType"
    /\ src.w = 4
    /\ fed = 5
    /\ fed = Len(encode_varint(TagOf(src)))
    /\ src.tail # <<>>


\* C22: Empty input is idle. FieldReader.next on an empty slice returns
\* Ok(Err(Status::IdleAtEndOfBuffer)), and on no other input: a non-empty input
\* yields a field, NeedMoreBytes or a DecodingError.
C22_EmptyIsIdle ==
    ret.r # "None" =>
        /\ (ret.r = "Status" /\ ret.status = "IdleAtEndOfBuffer") <=> fed = 0
        /\ fed = 0 => (ret = FrStatus("IdleAtEndOfBuffer") /\ fr = FieldReader_default)
        /\ fed >= 1 => \/ ret.r \in {"Field", "Err"}
                       \/ ret = FrStatus("NeedMoreBytes")

C22_Witness ==
    /\ ret.r = "Status"
    /\ ret.status = "IdleAtEndOfBuffer"
    /\ fed = 0
    /\ Len(data) > 1


----------------------------------------------------------------------------
(* Claims about the steps of MatcherFields *)

\* every field the Matcher was asked about is the field that starts at the offset
\* it was reported at, read from its first byte
DecidedFromStart ==
    \A i \in DecideBefores(log) :
        LET n == FieldReader_next(FieldReader_default,
                                  Drop(Take(data, fed), log[i].off)).res
        IN /\ n.r = "Field"
           /\ n.consumed = log[i].hdr
           /\ ReadField_field_len(ReadFieldOf(n)) = log[i].len

\* C23: No partial consumption. When FieldReader.next returns NeedMoreBytes the
\* MatcherFields driver in state Ready returns NeedMoreBytes and leaves its offset,
\* its state and the caller's buf unchanged without calling the Matcher, so that a
\* retry with the same bytes plus more decodes the field from its original start.
C23_Call ==
    (mf.state = Ready /\ PartialHeader(mf, buf)) =>
        /\ ret' = ResStatus("NeedMoreBytes")
        /\ mf' = mf
        /\ buf' = buf
        /\ released' = released
        /\ log' = log
        /\ out' = out

C23_NoPartialConsumption == []DecidedFromStart /\ [][IsCall => C23_Call]_vars

C23_Witness ==
    /\ ret = ResStatus("NeedMoreBytes")
    /\ mf.state = Ready
    /\ PartialHeader(mf, buf)
    /\ retries = 1
    /\ mf.offset > 0
    /\ mf.matcher.m = "Link"


\* C24: Header-only consumption. For a LengthDelimited field ReadField.consumed is
\* the length of the tag varint plus the length of the length varint and covers no
\* payload byte, and bytes_to_skip() = consumed + field_len(); the Ready step
\* advances buf and offset by exactly consumed, so that the payload starts at
\* buf[0]: a buffered payload starts at global offset header start + consumed,
\* which is where the buffer starts.
C24_HeaderOnly ==
    /\ \A i \in DecideBefores(log) :
          LET d == Drop(Take(data, fed), log[i].off)
              t == read_varint32(d)
              l == read_varint32(Drop(d, t.n))
              n == FieldReader_next(FieldReader_default, d).res
          IN ReadField_wire_type(ReadFieldOf(n)) = "LengthDelimited" =>
                /\ ReadField_consumed(ReadFieldOf(n)) = t.n + l.n
                /\ ReadField_field_len(ReadFieldOf(n)) = ToNat(l.val)
                /\ ReadField_bytes_to_skip(ReadFieldOf(n)) = t.n + l.n + ToNat(l.val)
                /\ log[i].hdr = t.n + l.n
                /\ log[i].len = ToNat(l.val)
    /\ mf.state.k \in {"Gathering", "Skipping"} =>
          /\ mf.state.read_at = LastDecideBefore(log).off
          /\ mf.state.start = LastDecideBefore(log).off + LastDecideBefore(log).hdr
    /\ mf.state.k = "Gathering" =>
          /\ mf.offset = mf.state.start
          /\ mf.state.amount = LastDecideBefore(log).len
          /\ buf = SubSeq(data, mf.state.start + 1, fed)

C24_Witness ==
    /\ mf.state.k = "Gathering"
    /\ mf.state.amount = 2
    /\ Len(buf) = 1
    /\ buf[1] = 65
    /\ ret = ResStatus("NeedMoreBytes")
    /\ mf.state.read_at > 0


\* the ReadSlice decisions among the Matcher calls in l
ReadSlices(l) == {i \in DecideBefores(l) : l[i].dec = "ReadSlice"}

\* C25: Buffering. After a ReadSlice decision for a field of declared length L,
\* MatcherFields.next returns NeedMoreBytes, consuming nothing and changing neither
\* offset nor state, for as long as the buffer holds fewer than L bytes; the first
\* call with at least L bytes consumes exactly L bytes, advances offset by L and
\* emits one Slice match with the decision's tag, offset = header start and range
\* [window-start, window-start + L), window-start being the offset just after the
\* header; then the driver is in DecidingAfter.
C25_Call ==
    mf.state.k = "Gathering" =>
        LET e == LastDecideBefore(log)
            L == e.len
        IN /\ e.dec = "ReadSlice"
           /\ mf.state.amount = L
           /\ IF Len(buf) < L
              THEN /\ ret' = ResStatus("NeedMoreBytes")
                   /\ mf' = mf
                   /\ buf' = buf
                   /\ out' = out
                   /\ log' = log
              ELSE /\ ret' = ResMatched(Matched(e.tag, e.off,
                                                Slice(e.off + e.hdr, e.off + e.hdr + L)))
                   /\ buf' = Drop(buf, L)
                   /\ mf'.offset = mf.offset + L
                   /\ mf'.state = DecidingAfter
                   /\ out' = Append(out, ret'.m)
                   /\ log' = log

\* one Slice match per ReadSlice decision, none before the payload was consumed
C25_OneSlice ==
    \A i \in ReadSlices(log) :
        LET ms == {j \in DOMAIN out : out[j].offset = log[i].off}
        IN /\ Cardinality(ms) = (IF mf.offset >= EndOf(log[i]) THEN 1 ELSE 0)
           /\ \A j \in ms : out[j] = Matched(log[i].tag, log[i].off,
                                             Slice(log[i].off + log[i].hdr,
                                                   EndOf(log[i])))

C25_Buffering == []C25_OneSlice /\ [][IsCall => C25_Call]_vars

C25_Witness ==
    /\ ret.r = "Matched"
    /\ ret.m.value.v = "Slice"
    /\ ret.m.value.e - ret.m.value.s = 2
    /\ ret.m.tag.t = "PbLinkHash"
    /\ mf.state = DecidingAfter
    /\ retries = 0
    /\ \E i \in DOMAIN log : log[i].e = "decide_before" /\ log[i].off > 2
    /\ buf # <<>>


----------------------------------------------------------------------------
(* Claims about the gatherer *)

\* C26: Incomplete aggregates. When the end-of-aggregate tag (EndPbLink) reaches
\* Gatherer.update the gatherer takes all accumulated fields, whether or not an
\* aggregate results, and holds nothing afterwards (min_offset() is None): once a
\* link has been closed and the driver is back at top level, no field of that link
\* is left to be combined with the fields of a later link.
C26_NothingLeftAfterEnd ==
    (ret.r \in {"Returned", "Status"} /\ mf.matcher.m = "Top") =>
        /\ gatherer = PBLinkGatherer_default
        /\ ~Gatherer_min_offset(gatherer).some


\* C27: Slicer mapping. For a Slicer built by wrap(buffer, last_offset) with
\* last_offset >= len(buffer), first_offset = last_offset - len(buffer); as_slice of
\* [s, e) with first_offset <= s <= e <= last_offset returns exactly
\* buffer[s - first_offset .. e - first_offset], which is e - s bytes; a range that
\* starts before first_offset or ends after last_offset panics.
C27_SlicerMapping ==
    (ret.r # "None" /\ src.last_offset >= Len(data)) =>
        LET first == src.last_offset - Len(data)
        IN /\ ret.first_offset = first
           /\ IF first <= src.s /\ src.s <= src.e /\ src.e <= src.last_offset
              THEN /\ ret.r = "Ok"
                   /\ Len(ret.bytes) = src.e - src.s
                   /\ \A i \in 1..(src.e - src.s) :
                         ret.bytes[i] = data[src.s - first + i]
              ELSE (src.s < first \/ src.e > src.last_offset) => ret.r = "Panic"

C27_Witness ==
    /\ ret.r = "Ok"
    /\ ret.first_offset = 2
    /\ src.s = 3
    /\ src.e = 5
    /\ ret.bytes = <<5, 6>>


\* C28: GatheredFields window alignment. On every entry to GatheredFields.next with
\* cached_min_offset = Some(min), buf[0] is the stream byte at global offset min, so
\* that buf[reader.offset() - min] is the first byte the inner MatcherFields has not
\* yet consumed; for every chunking, and also after the gatherer's minimum changed.
C28_Entry ==
    cached_min_offset.some =>
        /\ released = cached_min_offset.s
        /\ cached_min_offset.s <= mf.offset
        /\ mf.offset - cached_min_offset.s <= Len(buf)
        /\ SubSeq(buf, mf.offset - cached_min_offset.s + 1, Len(buf))
               = SubSeq(data, mf.offset + 1, fed)

C28_WindowAlignment == [][IsCall => C28_Entry]_vars


\* the offset at which decide_after is due after the decide_before call ev
AfterOf(ev) == IF ev.dec \in {"Message", "ReadValue"} THEN ev.off + ev.hdr ELSE EndOf(ev)

\* the offsets of the decide_after calls of l that returned a tag, in order
RECURSIVE TaggedAfters(_)
TaggedAfters(l) ==
    IF l = <<>> THEN <<>>
    ELSE LET ev == l[Len(l)]
             rest == TaggedAfters(SubSeq(l, 1, Len(l) - 1))
         IN IF ev.e = "decide_after" /\ ev.tag # NoTag THEN Append(rest, ev.off) ELSE rest

\* the offsets of the Marker matches of o that carry a tag of ts, in order
RECURSIVE MarkersOf(_, _)
MarkersOf(o, ts) ==
    IF o = <<>> THEN <<>>
    ELSE LET m == o[Len(o)]
             rest == MarkersOf(SubSeq(o, 1, Len(o) - 1), ts)
         IN IF m.tag.t \in ts /\ m.value = Marker THEN Append(rest, m.offset) ELSE rest

\* the tags decide_after returns: Tag::End, DagPbElement::EndPbLink
EndTags == {"End", "EndPbLink"}

C29_Log ==
    /\ \A i \in DOMAIN log :
          \* after a processed field the next Matcher call is decide_after at the
          \* offset the field ends at (a Message's header, a value, a payload)
          /\ (log[i].e = "decide_before" /\ log[i].dec # "Panic" /\ i < Len(log)) =>
                /\ log[i + 1].e = "decide_after"
                /\ log[i + 1].off = AfterOf(log[i])
          \* while again is true the next call is decide_after at the same offset
          /\ (log[i].e = "decide_after" /\ log[i].dec = "again" /\ i < Len(log)) =>
                /\ log[i + 1].e = "decide_after"
                /\ log[i + 1].off = log[i].off
          \* a field is read only after a call with again = false
          /\ (log[i].e = "decide_before" /\ i > 1) =>
                /\ log[i - 1].e = "decide_after"
                /\ log[i - 1].dec = "done"
    \* one Marker match per returned tag, at the offset of the call
    /\ ret.r # "Panic" => MarkersOf(out, EndTags) = TaggedAfters(log)
    \* the driver is in DecidingAfter exactly while a decide_after call is due
    /\ (ret.r # "Panic" /\ log # <<>>) =>
          LET last == log[Len(log)] IN
          /\ mf.state.k = "Ready" => last.e = "decide_after" /\ last.dec = "done"
          /\ mf.state.k = "DecidingAfter" =>
                /\ \/ last.e = "decide_before"
                   \/ last.e = "decide_after" /\ last.dec = "again"
                /\ mf.offset = IF last.e = "decide_before" THEN AfterOf(last) ELSE last.off
          /\ (last.e = "decide_after" /\ last.dec = "again") =>
                mf.state.k = "DecidingAfter"

\* a call made in DecidingAfter whose decide_after returns a tag
C29_Call ==
    (mf.state.k = "DecidingAfter"
        /\ ~Matcher_decide_after(mf.matcher, mf.offset).panic
        /\ Matcher_decide_after(mf.matcher, mf.offset).tag # NoTag) =>
        /\ ret'.r = "Matched"
        /\ ret'.m = Matched(Matcher_decide_after(mf.matcher, mf.offset).tag,
                            mf.offset, Marker)
        /\ buf' = buf
        /\ mf'.offset = mf.offset
        /\ Len(log') = Len(log) + 1
        /\ mf'.state.k = IF Matcher_decide_after(mf.matcher, mf.offset).again
                         THEN "DecidingAfter" ELSE "Ready"

\* C29: DecidingAfter loop. After every processed field (Message header, ReadValue,
\* finished slice, finished skip) the driver calls decide_after(current offset) and
\* keeps calling it at the same offset, consuming no bytes and reading no field in
\* between, for as long as it returns again = true; each call that returns a tag
\* produces exactly one Marker match with offset = current offset; the driver
\* returns to Ready only after a call with again = false.
C29_DecidingAfterLoop == []C29_Log /\ [][IsCall => C29_Call]_vars

\* two sub-messages closed at the same offset: the first call said again = true
C29_Witness ==
    /\ Len(log) >= 2
    /\ log[Len(log) - 1].e = "decide_after"
    /\ log[Len(log) - 1].dec = "again"
    /\ log[Len(log)].e = "decide_after"
    /\ log[Len(log)].dec = "done"
    /\ log[Len(log)].tag = Tag("End", 0)
    /\ log[Len(log)].off = log[Len(log) - 1].off
    /\ mf.state.k = "Ready"
    /\ Len(MarkersOf(out, EndTags)) >= 2


\* a call made in Ready that reads a whole header for which decide_before
\* returns Message
C30_Call ==
    LET n == FieldReader_next(mf.reader, buf) IN
    (mf.state.k = "Ready" /\ n.res.r = "Field"
        /\ Matcher_decide_before(mf.matcher, mf.offset,
               [consumed |-> n.res.consumed, field |-> n.res.field]).r = "Message") =>
        LET read == [consumed |-> n.res.consumed, field |-> n.res.field]
            d == Matcher_decide_before(mf.matcher, mf.offset, read)
        IN /\ buf' = Drop(buf, ReadField_consumed(read))
           /\ mf'.offset = mf.offset + ReadField_consumed(read)
           /\ mf'.state.k = "DecidingAfter"
           /\ ret' = ResMatched(Matched(d.tag, mf.offset, Marker))
           /\ log' = Append(log, Ev("decide_before", mf.offset, ReadField_consumed(read),
                                    ReadField_field_len(read), "Message", d.tag,
                                    mf.matcher))

\* after a Message decision the next field is read where the header ended, and
\* no payload was gathered or skipped in between
C30_Log ==
    \A i \in DOMAIN log :
        (log[i].e = "decide_before" /\ log[i].dec = "Message") =>
            /\ \A j \in DOMAIN log :
                  (j > i /\ log[j].e = "decide_before"
                     /\ \A k \in (i + 1)..(j - 1) : log[k].e # "decide_before") =>
                      log[j].off = log[i].off + log[i].hdr
            /\ \A j \in DOMAIN out :
                  out[j].value.v = "Slice" => out[j].offset # log[i].off
            /\ (i = Len(log) /\ ret.r # "Panic") =>
                  /\ mf.state.k = "DecidingAfter"
                  /\ mf.offset = log[i].off + log[i].hdr
                  /\ released = mf.offset

Scalars == {"Varint", "Fixed64", "Fixed32"}

\* a call made in Ready that reads a whole scalar field for which decide_before
\* returns ReadValue
C31_Call ==
    LET n == FieldReader_next(mf.reader, buf) IN
    (mf.state.k = "Ready" /\ n.res.r = "Field"
        /\ n.res.field.value.v \in Scalars
        /\ Matcher_decide_before(mf.matcher, mf.offset,
               [consumed |-> n.res.consumed, field |-> n.res.field]).r = "ReadValue") =>
        LET read == [consumed |-> n.res.consumed, field |-> n.res.field]
            d == Matcher_decide_before(mf.matcher, mf.offset, read)
        IN /\ ret' = ResMatched(Matched(d.tag, mf.offset,
                                        Value(ReadField_wire_type(read),
                                              n.res.field.value.x, 0, 0)))
           /\ mf'.state.k = "DecidingAfter"
           /\ mf'.offset = mf.offset + ReadField_consumed(read)
           /\ buf' = Drop(buf, ReadField_consumed(read))

\* every ReadValue decision has its one match, whatever state the call began in
C31_Log ==
    ret.r # "Panic" =>
        \A i \in DecideBefores(log) :
            log[i].dec = "ReadValue" =>
                LET n == FieldReader_next(FieldReader_default,
                                          Drop(Take(data, fed), log[i].off)).res
                    ms == {j \in DOMAIN out : out[j].offset = log[i].off
                                                 /\ out[j].value.v \in Scalars}
                IN /\ n.r = "Field"
                   /\ Cardinality(ms) = 1
                   /\ \A j \in ms :
                         out[j] = Matched(log[i].tag, log[i].off,
                                          Value(n.field.kind, n.field.value.x, 0, 0))
                   /\ i = Len(log) => mf.state.k = "DecidingAfter"

\* C31: ReadValue decision. When decide_before returns ReadValue(tag) for a Varint,
\* Fixed64 or Fixed32 field, the same next call returns a match with that tag,
\* offset = header start and a value of the matching variant equal to the value
\* FieldReader decoded, and the state becomes DecidingAfter.
C31_ReadValue == []C31_Log /\ [][IsCall => C31_Call]_vars

\* the fixed32 leaf 09 0a 0b 0c read after the varint 300 and the fixed64 leaf
C31_Witness ==
    /\ Len(out) = 3
    /\ out[1].value = Value("Varint", {2, 3, 5, 8}, 0, 0)
    /\ out[2].value.v = "Fixed64"
    /\ out[3] = Matched(Tag("Leaf", 0), 12,
                        Value("Fixed32", {0, 3, 9, 11, 16, 17, 19, 26, 27}, 0, 0))
    /\ mf.state.k = "DecidingAfter"


\* the wrapper as the wrapped Reader is called in this round: after maybe_fill
\* has read the bytes fed + 1 .. fed' of the source
Filled == maybe_fill(rw, SubSeq(data, fed + 1, fed'), rw'.capacity)

C32_Round ==
    \* what the Reader is handed is the stream from its first unreleased byte up
    \* to the last byte read from the source
    /\ Drop(Filled.buffer, Filled.at_offset) = SubSeq(data, released + 1, fed')
    \* maybe_fill keeps every unreleased byte, in order, and appends what was read
    /\ Drop(Filled.buffer, Filled.at_offset)
           = Drop(rw.buffer, rw.at_offset) \o SubSeq(data, fed + 1, fed')
    \* it drains only a full buffer, and only the bytes before at_offset
    /\ Filled.at_offset # rw.at_offset =>
          /\ Len(rw.buffer) = rw.capacity
          /\ Filled.at_offset = 0
          /\ Filled.buffer = Drop(rw.buffer, rw.at_offset) \o SubSeq(data, fed + 1, fed')
    /\ Filled.at_offset = rw.at_offset =>
          Filled.buffer = rw.buffer \o SubSeq(data, fed + 1, fed')
    \* it grows only a buffer that is full with nothing to drain, by grow_by
    /\ rw'.capacity # rw.capacity =>
          /\ maybe_fill_reads(rw)
          /\ Len(rw.buffer) = rw.capacity
          /\ rw.at_offset = 0
          /\ rw'.capacity >= rw.capacity + grow_by
          /\ Len(Filled.buffer) <= rw.capacity + grow_by
    /\ Len(Filled.buffer) <= rw'.capacity
    \* the Reader's release moves at_offset and nothing else of the buffer
    /\ rw'.buffer = Filled.buffer
    /\ rw'.at_offset >= Filled.at_offset

C32_State ==
    /\ rw.at_offset <= Len(rw.buffer)
    /\ Drop(rw.buffer, rw.at_offset) = SubSeq(data, released + 1, fed)

C33_Round ==
    /\ maybe_fill_reads(rw) => ret.status \in {"IdleAtEndOfBuffer", "NeedMoreBytes"}
    /\ ret.r = "Some" => (~maybe_fill_reads(rw) /\ fed' = fed)

\* C33: ReadWrapper refill condition. The exhausted flag is true only while more
\* bytes need to be read: ReadWrapper reads from the byte source only when the most
\* recent call of the wrapped Reader on the buffered bytes returned
\* IdleAtEndOfBuffer or NeedMoreBytes; a read_next call that follows a call which
\* returned an item does not read from the source before trying the Reader on the
\* bytes already buffered.
C33_RefillCondition == [][C33_Round]_vars


\* The whole stream handed over as one chunk: next is called until it returns
\* something other than an aggregate; o collects the aggregates.
RECURSIVE GFWholeFrom(_, _, _)
GFWholeStep(n, o) ==
    IF n.res.r = "Returned"
    THEN GFWholeFrom(n.self, n.buf, Append(o, n.res.val))
    ELSE [out |-> o, res |-> n.res]

GFWholeFrom(self, b, o) == GFWholeStep(GatheredFields_next(self, b), o)

GFWhole(stream) ==
    GFWholeFrom([reader |-> MatcherFields_new(Top), gatherer |-> PBLinkGatherer_default,
                 cached_min_offset |-> None], stream, <<>>)

\* the whole stream has been handed over and the call after the last chunk has
\* come to a Status, an error or a panic
GFAtEnd == fed = Len(data) /\ retries = 0 /\ ret.r \in {"Status", "Err", "Panic"}

\* C34: Chunking independence of GatheredFields. For every input byte stream and
\* every two ways of splitting it into chunks (the caller always passing back the
\* unreleased remainder followed by the new bytes), GatheredFields.next produces
\* the same sequence of aggregates and the same final outcome (idle, need-more, or
\* the same error): every chunking ends as the one-chunk delivery does.
C34_ChunkingIndependence ==
    GFAtEnd => (out = GFWhole(data).out /\ ret = GFWhole(data).res)


\* The whole stream handed to MatcherFields as one chunk: next is called until it
\* returns something other than a match; o collects the matches.
RECURSIVE MFWholeFrom(_, _, _)
MFWholeStep(n, o) ==
    IF n.res.r = "Matched"
    THEN MFWholeFrom(n.self, n.buf, Append(o, n.res.m))
    ELSE [out |-> o, res |-> n.res, offset |-> n.self.offset]

MFWholeFrom(self, b, o) == MFWholeStep(MatcherFields_next(self, b), o)

\* the whole stream has been handed over and the call after the last chunk has
\* come to a Status, an error or a panic
MFAtEnd == fed = Len(data) /\ ret.r \in {"Status", "Err", "Panic"}

\* the matcher the session began with
FirstMatcher ==
    IF "path" \in DOMAIN src THEN PathMatcher_new(src.path, src.leaf_type) ELSE Top

\* C35: Chunking independence of MatcherFields. For every input byte stream, every
\* deterministic Matcher and every two ways of splitting the input into chunks (the
\* caller appending new bytes to the unconsumed remainder), MatcherFields.next
\* emits the same sequence of Matched items (tag, offset, value or range) and ends
\* with the same offset and the same final status or error: every chunking ends as
\* the one-chunk delivery does, and until then has emitted a prefix of its matches.
C35_ChunkingIndependence ==
    LET whole == MFWholeFrom(MatcherFields_new(FirstMatcher), data, <<>>)
    IN /\ IsPrefix(out, whole.out)
       /\ MFAtEnd => /\ out = whole.out
                     /\ ret = whole.res
                     /\ mf.offset = whole.offset

\* a chunk ended inside the payload of a gathered field, after two matches
C35_Witness ==
    /\ ret = ResStatus("NeedMoreBytes")
    /\ mf.state.k = "Gathering"
    /\ Len(buf) > 0
    /\ Len(out) >= 2
    /\ fed < Len(data)
    /\ src.frame.delta = 0


\* the Slice matches of out reported for the field whose header starts at off
SlicesAt(off) == {j \in DOMAIN out : out[j].offset = off /\ out[j].value.v = "Slice"}

\* the field of the decide_before call log[i] is still being gathered or skipped
Pending(i) == i = Len(log) /\ mf.state.k \in {"Gathering", "Skipping"}

\* C36: One slice match per skipped or sliced field. Every field for which
\* decide_before returns Skip(tag) or ReadSlice(tag) produces exactly one Slice
\* match carrying that tag, emitted only once the whole payload has been consumed,
\* with offset = header start and a range that starts just after the header and has
\* length field_len(); for a non-length-delimited field this is an empty range
\* emitted without needing further bytes, even on an empty buffer.
C36_OneSlicePerField ==
    \A i \in DecideBefores(log) :
        log[i].dec \in {"Skip", "ReadSlice"} =>
            IF Pending(i)
            THEN /\ SlicesAt(log[i].off) = {}
                 /\ log[i].len > 0
                 /\ mf.offset < EndOf(log[i])
            ELSE /\ Cardinality(SlicesAt(log[i].off)) = 1
                 /\ \A j \in SlicesAt(log[i].off) :
                       out[j] = Matched(log[i].tag, log[i].off,
                                        Slice(log[i].off + log[i].hdr, EndOf(log[i])))
                 /\ mf.offset >= EndOf(log[i])
                 /\ released >= EndOf(log[i])

\* the varint field 10 01, off the path, has its empty range, reported with
\* nothing left in the buffer
C36_Witness ==
    /\ data = <<10, 6, 10, 0, 16, 1, 24, 9>>
    /\ fed = 6
    /\ buf = <<>>
    /\ LastDecideBefore(log).dec = "Skip"
    /\ LastDecideBefore(log).len = 0
    /\ Len(out) = 3
    /\ out[3] = Matched(Tag("Ignored", 0), 4, Slice(6, 6))
    /\ mf.state.k = "DecidingAfter"


\* the call has ended: with an item, Ok(None), an error, or in a panic of the
\* wrapped Reader (a next that does not return)
RWEnded == ret.r \in {"Some", "OkNone", "Err", "Panic"}

\* the loop goes round again only while the source has not reported its end
C37_State == ret.r = "Loop" => (rw.exhausted /\ ~rw.eof_after_buffer)

\* a round that does not end the call has read new bytes from the source
C37_Round ==
    ret'.r = "Loop" => (fed' > fed \/ (ret.r # "Loop" /\ ~maybe_fill_reads(rw)))

\* C37: ReadWrapper.read_next terminates. For every finite byte source (whose read
\* eventually returns 0) and every wrapped Reader whose next always returns, each
\* read_next call returns after finitely many refills with an item, Ok(None),
\* UnexpectedEndOfFile or a decode/IO error; it never loops forever without either
\* reading new bytes or returning.
C37_Terminates ==
    /\ []C37_State
    /\ [][C37_Round]_vars
    /\ (ret.r = "Loop") ~> RWEnded

\* a call that went round its loop until the source ended has returned
C37_Witness ==
    /\ ret.r = "Err" /\ ret.err = UnexpectedEndOfFile
    /\ fed = Len(data)
    /\ fed > grow_by
    /\ rw.capacity > grow_by
    /\ rw.eof_after_buffer
    /\ out # <<>>


\* the advance step a, made on self and b, has consumed a field header or has
\* left the driver in another state
Progress(self, b, a) ==
    \/ /\ a.ev # <<>>
       /\ a.ev[1].e = "decide_before"
       /\ a.ev[1].hdr >= 1
       /\ Len(a.buf) = Len(b) - a.ev[1].hdr
    \/ a.self.state.k # self.state.k

\* The loop of next replayed step by step, for at most fuel + 1 advance steps:
\* steps counts them, good says that every step without a match made progress,
\* res is what the last step came to ("None" if the fuel ran out).
RECURSIVE AdvanceRun(_, _, _)
AdvanceRunStep(self, b, a, fuel) ==
    IF a.res.r # "None" \/ fuel = 0
    THEN [steps |-> 1, good |-> a.res.r = "None" => Progress(self, b, a),
          res |-> a.res, self |-> a.self, buf |-> a.buf]
    ELSE [AdvanceRun(a.self, a.buf, fuel - 1) EXCEPT
              !.steps = @ + 1, !.good = @ /\ Progress(self, b, a)]

AdvanceRun(self, b, fuel) == AdvanceRunStep(self, b, advance(self, b), fuel)

\* one advance step per byte of the buffer and three more are allowed
Fuel(b) == Len(b) + 3

C38_Call ==
    LET run == AdvanceRun(mf, buf, Fuel(buf)) IN
    /\ run.res.r \in {"Matched", "Status", "Err", "Panic"}
    /\ run.good
    /\ ret' = run.res
    /\ mf' = run.self
    /\ buf' = run.buf

----------------------------------------------------------------------------
\* the low 32 bits of the little-endian base-128 number in the first n bytes of d
Low32(d, n) ==
    {j \in 0..(U32Width - 1) : (j \div 7) < n /\ (j % 7) \in Bits(d[(j \div 7) + 1])}

\* the fifth byte of d carries bits at or above 2^32
CarriesHighBits(d) == Len(d) >= 5 /\ Bits(d[5]) \cap {4, 5, 6} # {}

\* C39: 32-bit truncation. read_varint32 accepts any varint terminated within 5
\* bytes and returns its value modulo 2^32 without error, so a tag or declared
\* length whose 5-byte encoding carries bits at or above 2^32 is silently reduced
\* (field_id and field_len are computed from the truncated value) rather than
\* rejected.
C39_Truncation ==
    ret.fn = "read_varint32" =>
        LET d == Take(data, fed)
            k == FirstClear(d)
            asTag == FieldReader_next(FieldReader_default, d).res
            asLen == FieldReader_next(FieldReader_default, <<10>> \o d).res
        IN (k \in 1..5) =>
              /\ ret.res = VarintOk(k, Low32(d, k))
              /\ asTag.r # "Err" =>
                    /\ WireType_try_from(Low32(d, k)).r = "Ok"
                    /\ asTag.r = "Field" =>
                          /\ asTag.field.id = ToNat(Shr(Low32(d, k), 3))
                          /\ asTag.field.kind = WireType_try_from(Low32(d, k)).kind
              /\ asLen.r = "Field"
              /\ asLen.consumed = 1 + k
              /\ asLen.field = FieldInfo(1, "LengthDelimited", "DataLength", Low32(d, k))

\* read_varint32 has returned 2^32 - 1 for ff ff ff ff 7f, whose value is 2^35 - 1,
\* and a tag made of 80 80 80 80 7f is read as field 0x1e000000
C39_Witness ==
    /\ ret.fn = "read_varint32"
    /\ fed = 7
    /\ Take(data, 5) = <<128, 128, 128, 128, 127>>
    /\ CarriesHighBits(data)
    /\ ret.res = VarintOk(5, 28..31)
    /\ FieldReader_next(FieldReader_default, data).res.r = "Field"
    /\ FieldReader_next(FieldReader_default, data).res.field.id = ToNat(25..28)


----------------------------------------------------------------------------
\* between calls, unless the last call ended in a DecodingError or a panic
C40_State ==
    ret.r \in {"None", "Returned", "Status"} =>
        cached_min_offset = Gatherer_min_offset(gatherer)

\* on entry of a call
C40_Entry == ~cached_min_offset.some => ~Gatherer_min_offset(gatherer).some

\* C40: Cached minimum is current. After every return of GatheredFields.next that
\* is not a DecodingError, cached_min_offset equals gatherer.min_offset(); in
\* particular cached_min_offset is None on entry only if the gatherer holds no
\* range.
C40_CachedMinimumCurrent == []C40_State /\ [][IsCall => C40_Entry]_vars

\* a hash and a name range are held, the cache holds the start of the earlier
\* one, and a call that went on to a further slice has returned a Status
C40_Witness ==
    /\ ret.r = "Status"
    /\ gatherer.hash.some
    /\ gatherer.name.some
    /\ gatherer.hash.s # gatherer.name.s
    /\ cached_min_offset = SomeOffset(Min(gatherer.hash.s, gatherer.name.s))
    /\ log # <<>>
    /\ log[Len(log)].e = "decide_before"
    /\ log[Len(log)].dec = "ReadSlice"

====
